---- MODULE Spec2Model ----
(***************************************************************************)
(* Model of functions.py: the annuity factor and the three parameter       *)
(* loaders (generators, storage units, hydro).                             *)
(*                                                                         *)
(* Python's float is the IEEE-754 binary64 format, and every arithmetic    *)
(* step of the source rounds to it.  The model keeps that rounding: a      *)
(* float is a sign, a 53-bit significand and a binary exponent, and each   *)
(* operation computes the exact result and rounds it to nearest, ties to   *)
(* even, within the range of the format: results too large are infinite,   *)
(* results too small are subnormal or zero.  Significands exceed the       *)
(* integers of the model checker, so natural numbers are kept as           *)
(* little-endian sequences of 14-bit limbs.                                *)
(*                                                                         *)
(* The one operation that is not rounded exactly is float ** int: CPython  *)
(* hands it to the C library's pow, which the model follows step by step   *)
(* (glibc 2.36, x86-64, the variant for processors with fused              *)
(* multiply-add).                                                          *)
(***************************************************************************)
EXTENDS Integers, Sequences, FiniteSets, TLC

(***************************************************************************)
(* dollar2euro is the module global of that name.  pending is the calls a  *)
(* client of the module is still to make, in order; history is the calls   *)
(* made so far, each with its outcome (the value returned or the exception *)
(* raised).                                                                *)
(***************************************************************************)
VARIABLES dollar2euro, pending, history

vars == <<dollar2euro, pending, history>>

(***************************************************************************)
(* Natural numbers of arbitrary size: <<>> is 0, the last limb is nonzero. *)
(* The operators avoid deep recursion: carries are resolved by a fixed     *)
(* number of passes over the limbs.  An intermediate result that is used   *)
(* more than once is handed to an operator as its argument.                *)
(***************************************************************************)
LimbBits == 14

BASE == 2 ^ LimbBits

\* The number of bits of a limb x
SmallBitLen(x) == CHOOSE k \in 0..LimbBits : x < 2 ^ k /\ (k = 0 \/ x >= 2 ^ (k - 1))

BLimb(a, i) == IF i >= 1 /\ i <= Len(a) THEN a[i] ELSE 0

\* The number of zero limbs at the top of a
BLeadingZeros(a) ==
    CHOOSE z \in 0..Len(a) :
        /\ (z = Len(a) \/ a[Len(a) - z] # 0)
        /\ \A j \in (Len(a) - z + 1)..Len(a) : a[j] = 0

\* a without its leading zero limbs
BStrip(a) == SubSeq(a, 1, Len(a) - BLeadingZeros(a))

RECURSIVE BFromInt(_)
BFromInt(n) ==
    IF n = 0 THEN <<>> ELSE <<n % BASE>> \o BFromInt(n \div BASE)

\* One pass moving each column's excess over BASE to the next column
BPass(c) ==
    SubSeq([k \in 1..(Len(c) + 1) |->
               (BLimb(c, k) % BASE) + (BLimb(c, k - 1) \div BASE)],
           1, Len(c) + 1)

\* The limbs of the number whose columns u are all <= BASE, G being the
\* columns equal to BASE: a carry enters column k when a column of G below
\* it is followed by columns BASE - 1 only
BCarryFrom(u, G) ==
    SubSeq([k \in 1..(Len(u) + 1) |->
               (BLimb(u, k)
                + (IF \E j \in G : j < k /\ \A i \in (j + 1)..(k - 1) : u[i] = BASE - 1
                   THEN 1 ELSE 0)) % BASE],
           1, Len(u) + 1)

BCarryLast(u) == BCarryFrom(u, {j \in 1..Len(u) : u[j] = BASE})

\* The limbs of the number whose columns (each below 2^31) are c;
\* Len(c) + 4 limbs, leading zeros kept
BCarry(c) == BCarryLast(BPass(BPass(BPass(c))))

Max(i, j) == IF i > j THEN i ELSE j

Min(i, j) == IF i < j THEN i ELSE j

BAdd(a, b) ==
    BStrip(BCarry([k \in 1..Max(Len(a), Len(b)) |-> BLimb(a, k) + BLimb(b, k)]))

\* The number of limbs, from the top, in which a and b of equal length agree
BCommonTop(a, b) ==
    CHOOSE z \in 0..Len(a) :
        /\ (z = Len(a) \/ a[Len(a) - z] # b[Len(a) - z])
        /\ \A j \in (Len(a) - z + 1)..Len(a) : a[j] = b[j]

\* -1, 0 or 1 as limb i of a is below, equal to or above limb i of b
BCmpAt(a, b, i) ==
    IF i = 0 THEN 0 ELSE IF a[i] < b[i] THEN -1 ELSE 1

\* -1, 0 or 1 as a < b, a = b or a > b
BCmp(a, b) ==
    IF Len(a) < Len(b) THEN -1
    ELSE IF Len(a) > Len(b) THEN 1
    ELSE BCmpAt(a, b, Len(a) - BCommonTop(a, b))

\* a - b for a >= b, as a + (BASE^n - 1 - b) + 1 - BASE^n
BSub(a, b) ==
    BStrip(SubSeq(BCarry([k \in 1..Len(a) |->
                             BLimb(a, k) + (BASE - 1 - BLimb(b, k))
                             + (IF k = 1 THEN 1 ELSE 0)]),
                  1, Len(a)))

\* a * h for h of at most four limbs: each column sums four products
BMul4(a, h) ==
    IF a = <<>> \/ h = <<>> THEN <<>>
    ELSE BStrip(BCarry([k \in 1..(Len(a) + 4) |->
                          BLimb(a, k) * BLimb(h, 1) + BLimb(a, k - 1) * BLimb(h, 2)
                          + BLimb(a, k - 2) * BLimb(h, 3) + BLimb(a, k - 3) * BLimb(h, 4)]))

\* a * h, four limbs of h at a time
RECURSIVE BMulChunks(_, _)
BMulChunks(a, h) ==
    BAdd(BMul4(a, SubSeq(h, 1, IF Len(h) <= 4 THEN Len(h) ELSE 4)),
         IF Len(h) <= 4 THEN <<>>
         ELSE BStrip(<<0, 0, 0, 0>> \o BMulChunks(a, SubSeq(h, 5, Len(h)))))

BMul(a, b) ==
    BMulChunks(IF Len(a) >= Len(b) THEN a ELSE b, IF Len(a) >= Len(b) THEN b ELSE a)

BSquare(a) == BMul(a, a)

\* acc * a^n
RECURSIVE BPowAcc(_, _, _)
BPowAcc(acc, a, n) ==
    IF n = 0 \/ acc = <<>> THEN acc ELSE BPowAcc(BMul(acc, a), a, n - 1)

BPow(a, n) == BPowAcc(<<1>>, a, n)

BitLen(a) ==
    IF a = <<>> THEN 0 ELSE LimbBits * (Len(a) - 1) + SmallBitLen(a[Len(a)])

\* a * 2^k
BShl(a, k) ==
    IF a = <<>> THEN a
    ELSE LET q == k \div LimbBits
             r == k % LimbBits
         IN  BStrip(SubSeq([i \in 1..(Len(a) + q + 1) |->
                        ((BLimb(a, i - q) % (2 ^ (LimbBits - r))) * (2 ^ r))
                        + (BLimb(a, i - q - 1) \div (2 ^ (LimbBits - r)))],
                    1, Len(a) + q + 1))

\* floor(a / 2^k)
BShr(a, k) ==
    LET q == k \div LimbBits
        r == k % LimbBits
    IN  IF Len(a) <= q THEN <<>>
        ELSE BStrip(SubSeq([i \in 1..(Len(a) - q) |->
                        (BLimb(a, i + q) \div (2 ^ r))
                        + ((BLimb(a, i + q + 1) % (2 ^ r)) * (2 ^ (LimbBits - r)))],
                    1, Len(a) - q))

\* a mod 2^k
BLow(a, k) ==
    LET q == k \div LimbBits
        r == k % LimbBits
    IN  IF Len(a) <= q THEN a
        ELSE BStrip(SubSeq([i \in 1..(q + 1) |->
                        IF i <= q THEN a[i] ELSE a[i] % (2 ^ r)],
                    1, q + 1))

BOdd(a) == a # <<>> /\ a[1] % 2 = 1

\* The integer a holds, for a below 2^31
BToInt(a) == BLimb(a, 1) + BASE * BLimb(a, 2) + BASE * BASE * BLimb(a, 3)

\* The largest q in lo..(hi - 1) with q * D <= R, given lo * D <= R < hi * D
RECURSIVE DigitSearch(_, _, _, _)
DigitSearch(R, D, lo, hi) ==
    IF hi - lo <= 1 THEN lo
    ELSE IF BCmp(BMul4(D, <<(lo + hi) \div 2>>), R) <= 0
         THEN DigitSearch(R, D, (lo + hi) \div 2, hi)
         ELSE DigitSearch(R, D, lo, (lo + hi) \div 2)

\* Long division, one limb of N at a time from limb i down to limb 1: Q holds
\* the quotient's limbs above i and R the remainder so far (R < D throughout)
RECURSIVE BDivLoop(_, _, _, _, _)

\* The step for the quotient limb q of R1
BDivStep(N, D, i, Q, R1, q) ==
    BDivLoop(N, D, i - 1, <<q>> \o Q, BSub(R1, BMul4(D, <<q>>)))

\* The step for R1, the remainder so far with limb i of N brought down
BDivDigit(N, D, i, Q, R1) ==
    BDivStep(N, D, i, Q, R1, DigitSearch(R1, D, 0, BASE))

BDivLoop(N, D, i, Q, R) ==
    IF BCmp(R, D) >= 0 \/ Len(Q) < 0 THEN [q |-> <<>>, r |-> <<>>]
    ELSE IF i = 0 THEN [q |-> BStrip(Q), r |-> R]
    ELSE BDivDigit(N, D, i, Q, BStrip(<<N[i]>> \o R))

\* [q |-> floor(N / D), r |-> N mod D] for D # 0
BDivMod(N, D) ==
    IF Len(N) < Len(D) THEN [q |-> <<>>, r |-> N]
    ELSE BDivLoop(N, D, Len(N) - Len(D) + 1, <<>>,
                  SubSeq(N, Len(N) - Len(D) + 2, Len(N)))

\* S with d as its limb i
BWithLimb(S, d, i) == BAdd(S, BShl(<<d>>, LimbBits * (i - 1)))

\* The largest d in lo..(hi - 1) with (S + d * BASE^(i-1))^2 <= M
RECURSIVE SqrtDigit(_, _, _, _, _)
SqrtDigit(M, S, i, lo, hi) ==
    IF hi - lo <= 1 THEN lo
    ELSE IF BCmp(BSquare(BWithLimb(S, (lo + hi) \div 2, i)), M) <= 0
         THEN SqrtDigit(M, S, i, (lo + hi) \div 2, hi)
         ELSE SqrtDigit(M, S, i, lo, (lo + hi) \div 2)

\* S holds the root's limbs above i (S * S <= M throughout)
RECURSIVE BSqrtLoop(_, _, _)
BSqrtLoop(M, S, i) ==
    IF i = 0 \/ Len(S) < 0 THEN S
    ELSE BSqrtLoop(M, BWithLimb(S, SqrtDigit(M, S, i, 0, BASE), i), i - 1)

\* floor(sqrt(M)) for M below BASE^8, one limb of the root at a time
BSqrt(M) == BSqrtLoop(M, <<>>, 4)

(***************************************************************************)
(* binary64 floats.  A finite nonzero float is s * m * 2^e with m of       *)
(* exactly Precision bits; below the normal range (e < MinExp) the low     *)
(* MinExp - e bits of m are zero: the subnormal numbers.  Zero is m = <<>> *)
(* with e = 0 and infinity m = <<>> with e = 1, both signed; NaN is        *)
(* m = <<>> with e = 2.  Equal records are bit-identical floats.           *)
(***************************************************************************)
Precision == 53

\* The smallest positive float is 2^MinExp
MinExp == -1074

\* The largest float is (2^Precision - 1) * 2^MaxExp
MaxExp == 971

FZero == [s |-> 1, m |-> <<>>, e |-> 0]

FSignedZero(s) == [s |-> s, m |-> <<>>, e |-> 0]

FInf(s) == [s |-> s, m |-> <<>>, e |-> 1]

FNaN == [s |-> 1, m |-> <<>>, e |-> 2]

FIsZero(x) == x.m = <<>> /\ x.e = 0

FIsInf(x) == x.m = <<>> /\ x.e = 1

FIsNaN(x) == x.m = <<>> /\ x.e = 2

\* x is finite and not zero
FIsNumber(x) == x.m # <<>>

\* s * m * 2^e for m # 0 of Precision + d bits, the low d bits zero when d > 0
FRanged(s, m, e, d) ==
    IF e + d > MaxExp THEN FInf(s)
    ELSE [s |-> s, m |-> IF d > 0 THEN BShr(m, d) ELSE BShl(m, -d), e |-> e + d]

\* s * m * 2^e for m that needs no rounding
FNormal(s, m, e) ==
    IF m = <<>> THEN FSignedZero(s) ELSE FRanged(s, m, e, BitLen(m) - Precision)

\* s * hi * 2^e moved up by one unit of hi when the part cut off, which
\* compares as c with half a unit, rounds up: to nearest, ties to even
FRoundHalf(s, hi, e, c, sticky) ==
    FNormal(s,
            IF c > 0 \/ (c = 0 /\ (sticky \/ BOdd(hi))) THEN BAdd(hi, <<1>>) ELSE hi,
            e)

\* FRound cutting the low d bits of M, d > 0
FRoundCut(s, M, e, sticky, d) ==
    FRoundHalf(s, BShr(M, d), e + d, BCmp(BLow(M, d), BShl(<<1>>, d - 1)), sticky)

\* FRound cutting d bits: those beyond Precision and those below 2^MinExp
FRoundTo(s, M, e, sticky, d) ==
    IF d <= 0 THEN FNormal(s, M, e) ELSE FRoundCut(s, M, e, sticky, d)

\* s * M * 2^e (plus, when sticky, a positive amount below one unit of M)
\* rounded to nearest, ties to even
FRound(s, M, e, sticky) ==
    IF M = <<>> THEN FSignedZero(s)
    ELSE FRoundTo(s, M, e, sticky, Max(BitLen(M) - Precision, MinExp - e))

\* s * (qr.q + a fraction that is zero exactly when qr.r is) * 2^e rounded
FRoundQuotient(s, qr, e) == FRound(s, qr.q, e, qr.r # <<>>)

\* s * (N / D) * 2^(e - sh) rounded, N * 2^sh / D having Precision + 3 bits or one more
FRoundScaled(s, N, D, e, sh) ==
    FRoundQuotient(s,
                   BDivMod(IF sh >= 0 THEN BShl(N, sh) ELSE N,
                           IF sh >= 0 THEN D ELSE BShl(D, -sh)),
                   e - sh)

\* s * (N / D) * 2^e rounded, for bignums N and D # 0
FRoundRatio(s, N, D, e) ==
    IF N = <<>> THEN FSignedZero(s)
    ELSE FRoundScaled(s, N, D, e, (Precision + 3) + BitLen(D) - BitLen(N))

Abs(i) == IF i < 0 THEN -i ELSE i
Sgn(i) == IF i < 0 THEN -1 ELSE 1

\* float(i) for a Python int
FInt(i) == FRound(Sgn(i), BFromInt(Abs(i)), 0, FALSE)

FNeg(x) == IF FIsNaN(x) THEN x ELSE [x EXCEPT !.s = -x.s]

FAbs(x) == [x EXCEPT !.s = 1]

\* x * 2^q for a finite x # 0, the result in the normal range
FScale(x, q) == [x EXCEPT !.e = x.e + q]

\* -1, 0, 1 as x < y, x = y, x > y; 2 when one of them is NaN
FCmp(x, y) ==
    IF FIsNaN(x) \/ FIsNaN(y) THEN 2
    ELSE IF FIsZero(x) /\ FIsZero(y) THEN 0
    ELSE IF FIsZero(x) THEN -y.s
    ELSE IF FIsZero(y) THEN x.s
    ELSE IF x.s # y.s THEN x.s
    ELSE IF FIsInf(x) /\ FIsInf(y) THEN 0
    ELSE IF FIsInf(x) THEN x.s
    ELSE IF FIsInf(y) THEN -x.s
    ELSE IF x.e # y.e THEN (IF x.e > y.e THEN x.s ELSE -x.s)
    ELSE x.s * BCmp(x.m, y.m)

\* sx * X * 2^e + sy * Y * 2^e rounded, c comparing X with Y
FAddCompared(sx, X, sy, Y, e, c) ==
    IF sx # sy /\ c = 0 THEN FZero
    ELSE FRound(IF sx = sy \/ c > 0 THEN sx ELSE sy,
                IF sx = sy THEN BAdd(X, Y)
                ELSE BSub(IF c > 0 THEN X ELSE Y, IF c > 0 THEN Y ELSE X),
                e, FALSE)

FAddAligned(sx, X, sy, Y, e) == FAddCompared(sx, X, sy, Y, e, BCmp(X, Y))

\* sx * X * 2^ex + sy * Y * 2^ey rounded
FAddExact(sx, X, ex, sy, Y, ey) ==
    FAddAligned(sx, BShl(X, ex - Min(ex, ey)), sy, BShl(Y, ey - Min(ex, ey)), Min(ex, ey))

FAdd(x, y) ==
    IF FIsNaN(x) \/ FIsNaN(y) THEN FNaN
    ELSE IF FIsInf(x) THEN (IF FIsInf(y) /\ x.s # y.s THEN FNaN ELSE x)
    ELSE IF FIsInf(y) THEN y
    ELSE IF FIsZero(x) /\ FIsZero(y) THEN (IF x.s = y.s THEN x ELSE FZero)
    ELSE IF FIsZero(x) THEN y
    ELSE IF FIsZero(y) THEN x
    ELSE FAddExact(x.s, x.m, x.e, y.s, y.m, y.e)

FSub(x, y) == FAdd(x, FNeg(y))

FMul(x, y) ==
    IF FIsNaN(x) \/ FIsNaN(y) THEN FNaN
    ELSE IF FIsInf(x) \/ FIsInf(y)
    THEN (IF FIsZero(x) \/ FIsZero(y) THEN FNaN ELSE FInf(x.s * y.s))
    ELSE IF FIsZero(x) \/ FIsZero(y) THEN FSignedZero(x.s * y.s)
    ELSE FRound(x.s * y.s, BMul(x.m, y.m), x.e + y.e, FALSE)

\* x / y as the processor divides: a zero divisor gives an infinity or NaN
FDiv(x, y) ==
    IF FIsNaN(x) \/ FIsNaN(y) THEN FNaN
    ELSE IF FIsInf(x) THEN (IF FIsInf(y) THEN FNaN ELSE FInf(x.s * y.s))
    ELSE IF FIsInf(y) THEN FSignedZero(x.s * y.s)
    ELSE IF FIsZero(y) THEN (IF FIsZero(x) THEN FNaN ELSE FInf(x.s * y.s))
    ELSE IF FIsZero(x) THEN FSignedZero(x.s * y.s)
    ELSE FRoundRatio(x.s * y.s, x.m, y.m, x.e - y.e)

\* The product s * P * 2^e, exact, plus z, rounded once
FFmaSum(s, P, e, z) ==
    IF FIsNaN(z) THEN FNaN
    ELSE IF FIsInf(z) THEN z
    ELSE IF FIsZero(z) THEN FRound(s, P, e, FALSE)
    ELSE FAddExact(s, P, e, z.s, z.m, z.e)

\* x * y + z with one rounding: the fused multiply-add
FFma(x, y, z) ==
    IF FIsNaN(x) \/ FIsNaN(y) THEN FNaN
    ELSE IF FIsInf(x) \/ FIsInf(y)
    THEN (IF FIsZero(x) \/ FIsZero(y) THEN FNaN ELSE FAdd(FInf(x.s * y.s), z))
    ELSE IF FIsZero(x) \/ FIsZero(y) THEN FAdd(FSignedZero(x.s * y.s), z)
    ELSE FFmaSum(x.s * y.s, BMul(x.m, y.m), x.e + y.e, z)

\* The root S of M rounded, for S = floor(sqrt(M)), as a float with exponent e
FSqrtRound(M, S, e) == FRound(1, S, e, BCmp(BSquare(S), M) # 0)

FSqrtScaled(M, e) == FSqrtRound(M, BSqrt(M), e)

\* sqrt(x) for x > 0: the significand is shifted by k, Precision + 4 or
\* one more, to make the exponent even
FSqrtShifted(x, k) == FSqrtScaled(BShl(x.m, k), (x.e - k) \div 2)

FSqrt(x) ==
    IF FIsNaN(x) \/ FIsZero(x) THEN x
    ELSE IF x.s < 0 THEN FNaN
    ELSE IF FIsInf(x) THEN x
    ELSE FSqrtShifted(x, IF (x.e - (Precision + 4)) % 2 = 0
                         THEN Precision + 4 ELSE Precision + 5)

\* The float a decimal literal num / 10^k denotes, e.g. FLit(7, 2) for 0.07
FLit(num, k) ==
    FRoundRatio(Sgn(num), BFromInt(Abs(num)), BPow(BFromInt(10), k), 0)

\* The float 2^k
FPow2(k) == FRound(1, <<1>>, k, FALSE)

\* The float of the hexadecimal literal 0xd.aaaaaabbbbbbbp+e with sign s,
\* written <<s, d, aaaaaa, bbbbbbb, e>>
FHex(h) ==
    FRound(h[1], BAdd(BShl(BFromInt(h[2] * (2 ^ 24) + h[3]), 28), BFromInt(h[4])),
           h[5] - 52, FALSE)

\* The integer a float x holds, for |x| below 2^31
FToInt(x) ==
    IF FIsZero(x) THEN 0 ELSE x.s * BToInt(BShr(x.m, -x.e))

(***************************************************************************)
(* What a call does: it returns a value or raises an exception.            *)
(***************************************************************************)
Return(v) == [exc |-> "none", val |-> v]
Raise(e)  == [exc |-> e, val |-> <<>>]

(***************************************************************************)
(* The C library's pow(x, y) for a finite x > 0 other than 1 and a nonzero *)
(* integer y, as float ** int calls it.  x^y = exp(y * log(x)): the        *)
(* logarithm and y * log(x) are kept as a sum of two floats, and both the  *)
(* logarithm and the exponential read a table of 128 intervals.  The       *)
(* operators follow the library's instructions in their order, each        *)
(* rounding included; the names are those of the library's source.         *)
(***************************************************************************)
\* __pow_log_data: ln2hi, ln2lo, poly (A[0] .. A[6]) and, as tab, the
\* triples invc, logc, logctail
Ln2hi == FHex(<<1, 1, \h62e42f, \hefa3800, -1>>)

Ln2lo == FHex(<<1, 1, \hef3579, \h3c76730, -45>>)

pow_log_poly_data ==
    <<<<-1, 1, \h000000, \h0000000, -1>>,
      <<-1, 1, \h555555, \h5555560, -1>>,
      <<1, 1, \h000000, \h0000006, -1>>,
      <<1, 1, \h999999, \h959554e, -1>>,
      <<-1, 1, \h555555, \h529a47a, -1>>,
      <<-1, 1, \h2495b9, \hb4845e9, 0>>,
      <<1, 1, \h0002b8, \hb263fc3, 0>>>>

pow_log_poly == [i \in 1..7 |-> FHex(pow_log_poly_data[i])]

pow_log_data ==
    <<<<<<1, 1, \h6a0000, \h0000000, 0>>, <<-1, 1, \h62c82f, \h2b9c800, -2>>, <<1, 1, \hab4242, \h8375680, -48>>>>,
      <<<<1, 1, \h680000, \h0000000, 0>>, <<-1, 1, \h5d1bdb, \hf580800, -2>>, <<-1, 1, \hca508d, \h8e0f720, -46>>>>,
      <<<<1, 1, \h660000, \h0000000, 0>>, <<-1, 1, \h576771, \h7455800, -2>>, <<-1, 1, \h362a4d, \h5b6506d, -45>>>>,
      <<<<1, 1, \h640000, \h0000000, 0>>, <<-1, 1, \h51aad8, \h72df800, -2>>, <<-1, 1, \h684e49, \heb067d5, -49>>>>,
      <<<<1, 1, \h620000, \h0000000, 0>>, <<-1, 1, \h4be5f9, \h5777800, -2>>, <<-1, 1, \h41b699, \h3293ee0, -47>>>>,
      <<<<1, 1, \h600000, \h0000000, 0>>, <<-1, 1, \h4618bc, \h21c6000, -2>>, <<1, 1, \h3d82f4, \h84c84cc, -46>>>>,
      <<<<1, 1, \h5e0000, \h0000000, 0>>, <<-1, 1, \h404308, \h686a800, -2>>, <<1, 1, \hc42f3e, \hd820b3a, -50>>>>,
      <<<<1, 1, \h5c0000, \h0000000, 0>>, <<-1, 1, \h3a64c5, \h5694800, -2>>, <<1, 1, \h0b1c68, \h6519460, -45>>>>,
      <<<<1, 1, \h5a0000, \h0000000, 0>>, <<-1, 1, \h347dd9, \ha988000, -2>>, <<1, 1, \h5594dd, \h4c58092, -45>>>>,
      <<<<1, 1, \h580000, \h0000000, 0>>, <<-1, 1, \h2e8e2b, \hae12000, -2>>, <<1, 1, \h67b1e9, \h9b72bd8, -45>>>>,
      <<<<1, 1, \h560000, \h0000000, 0>>, <<-1, 1, \h2895a1, \h3de8800, -2>>, <<1, 1, \h5ca14b, \h6cfb03f, -46>>>>,
      <<<<1, 1, \h560000, \h0000000, 0>>, <<-1, 1, \h2895a1, \h3de8800, -2>>, <<1, 1, \h5ca14b, \h6cfb03f, -46>>>>,
      <<<<1, 1, \h540000, \h0000000, 0>>, <<-1, 1, \h22941f, \hbcf7800, -2>>, <<-1, 1, \h65a242, \h853da76, -46>>>>,
      <<<<1, 1, \h520000, \h0000000, 0>>, <<-1, 1, \h1c898c, \h1699800, -2>>, <<-1, 1, \hfafbc6, \h8e75404, -46>>>>,
      <<<<1, 1, \h500000, \h0000000, 0>>, <<-1, 1, \h1675ca, \hbaba800, -2>>, <<1, 1, \hf1fc63, \h382a8f0, -46>>>>,
      <<<<1, 1, \h4e0000, \h0000000, 0>>, <<-1, 1, \h1058bf, \h9ae4800, -2>>, <<-1, 1, \h6a8c4f, \hd055a66, -45>>>>,
      <<<<1, 1, \h4c0000, \h0000000, 0>>, <<-1, 1, \h0a324e, \h2739000, -2>>, <<-1, 1, \hc6bee7, \hef4030e, -47>>>>,
      <<<<1, 1, \h4a0000, \h0000000, 0>>, <<-1, 1, \h040259, \h4b4d000, -2>>, <<-1, 1, \h036b89, \hef42d7f, -48>>>>,
      <<<<1, 1, \h4a0000, \h0000000, 0>>, <<-1, 1, \h040259, \h4b4d000, -2>>, <<-1, 1, \h036b89, \hef42d7f, -48>>>>,
      <<<<1, 1, \h480000, \h0000000, 0>>, <<-1, 1, \hfb9186, \hd5e4000, -3>>, <<1, 1, \hd572aa, \hb993c87, -47>>>>,
      <<<<1, 1, \h460000, \h0000000, 0>>, <<-1, 1, \hef0adc, \hbdc6000, -3>>, <<1, 1, \hb26b79, \hc86af24, -45>>>>,
      <<<<1, 1, \h440000, \h0000000, 0>>, <<-1, 1, \he27076, \he2af000, -3>>, <<-1, 1, \h72f4f5, \h43fff10, -46>>>>,
      <<<<1, 1, \h420000, \h0000000, 0>>, <<-1, 1, \hd5c216, \hb4fc000, -3>>, <<1, 1, \h1ba91b, \hbca681b, -45>>>>,
      <<<<1, 1, \h400000, \h0000000, 0>>, <<-1, 1, \hc8ff7c, \h79aa000, -3>>, <<1, 1, \h7794f6, \h89f8434, -45>>>>,
      <<<<1, 1, \h400000, \h0000000, 0>>, <<-1, 1, \hc8ff7c, \h79aa000, -3>>, <<1, 1, \h7794f6, \h89f8434, -45>>>>,
      <<<<1, 1, \h3e0000, \h0000000, 0>>, <<-1, 1, \hbc2867, \h42d9000, -3>>, <<1, 1, \h94eb03, \h18bb78f, -46>>>>,
      <<<<1, 1, \h3c0000, \h0000000, 0>>, <<-1, 1, \haf3c94, \he80c000, -3>>, <<1, 1, \ha4e633, \hfcd9066, -52>>>>,
      <<<<1, 1, \h3a0000, \h0000000, 0>>, <<-1, 1, \ha23bc1, \hfe2b000, -3>>, <<-1, 1, \h58c64d, \hc46c1ea, -45>>>>,
      <<<<1, 1, \h3a0000, \h0000000, 0>>, <<-1, 1, \ha23bc1, \hfe2b000, -3>>, <<-1, 1, \h58c64d, \hc46c1ea, -45>>>>,
      <<<<1, 1, \h380000, \h0000000, 0>>, <<-1, 1, \h9525a9, \hcf45000, -3>>, <<-1, 1, \had1d90, \h4c1d4e3, -45>>>>,
      <<<<1, 1, \h360000, \h0000000, 0>>, <<-1, 1, \h87fa06, \h520d000, -3>>, <<1, 1, \hbbdbf7, \hfdbfa09, -45>>>>,
      <<<<1, 1, \h340000, \h0000000, 0>>, <<-1, 1, \h7ab890, \h210e000, -3>>, <<1, 1, \hbdb907, \h2534a58, -45>>>>,
      <<<<1, 1, \h340000, \h0000000, 0>>, <<-1, 1, \h7ab890, \h210e000, -3>>, <<1, 1, \hbdb907, \h2534a58, -45>>>>,
      <<<<1, 1, \h320000, \h0000000, 0>>, <<-1, 1, \h6d60fe, \h719d000, -3>>, <<-1, 1, \h0e46aa, \h3b2e266, -46>>>>,
      <<<<1, 1, \h300000, \h0000000, 0>>, <<-1, 1, \h5ff307, \h0a79000, -3>>, <<-1, 1, \he9e439, \hf105039, -46>>>>,
      <<<<1, 1, \h300000, \h0000000, 0>>, <<-1, 1, \h5ff307, \h0a79000, -3>>, <<-1, 1, \he9e439, \hf105039, -46>>>>,
      <<<<1, 1, \h2e0000, \h0000000, 0>>, <<-1, 1, \h526e5e, \h3a1b000, -3>>, <<-1, 1, \h0de8b9, \h0075b8f, -45>>>>,
      <<<<1, 1, \h2c0000, \h0000000, 0>>, <<-1, 1, \h44d2b6, \hccb8000, -3>>, <<1, 1, \h70cc16, \h135783c, -46>>>>,
      <<<<1, 1, \h2c0000, \h0000000, 0>>, <<-1, 1, \h44d2b6, \hccb8000, -3>>, <<1, 1, \h70cc16, \h135783c, -46>>>>,
      <<<<1, 1, \h2a0000, \h0000000, 0>>, <<-1, 1, \h371fc2, \h01e9000, -3>>, <<1, 1, \h178864, \hd27543a, -48>>>>,
      <<<<1, 1, \h280000, \h0000000, 0>>, <<-1, 1, \h29552f, \h81ff000, -3>>, <<-1, 1, \h48d301, \h771c408, -45>>>>,
      <<<<1, 1, \h260000, \h0000000, 0>>, <<-1, 1, \h1b72ad, \h52f6000, -3>>, <<-1, 1, \he80a41, \h811a396, -45>>>>,
      <<<<1, 1, \h260000, \h0000000, 0>>, <<-1, 1, \h1b72ad, \h52f6000, -3>>, <<-1, 1, \he80a41, \h811a396, -45>>>>,
      <<<<1, 1, \h240000, \h0000000, 0>>, <<-1, 1, \h0d77e7, \hcd09000, -3>>, <<1, 1, \ha69968, \h8e85bf4, -47>>>>,
      <<<<1, 1, \h240000, \h0000000, 0>>, <<-1, 1, \h0d77e7, \hcd09000, -3>>, <<1, 1, \ha69968, \h8e85bf4, -47>>>>,
      <<<<1, 1, \h220000, \h0000000, 0>>, <<-1, 1, \hfec913, \h1dbe000, -4>>, <<-1, 1, \h575545, \hca333f2, -45>>>>,
      <<<<1, 1, \h200000, \h0000000, 0>>, <<-1, 1, \he27076, \he2b0000, -4>>, <<1, 1, \ha342c2, \haf0003c, -45>>>>,
      <<<<1, 1, \h200000, \h0000000, 0>>, <<-1, 1, \he27076, \he2b0000, -4>>, <<1, 1, \ha342c2, \haf0003c, -45>>>>,
      <<<<1, 1, \h1e0000, \h0000000, 0>>, <<-1, 1, \hc5e548, \hf5bc000, -4>>, <<-1, 1, \hd0c575, \h85fbe06, -46>>>>,
      <<<<1, 1, \h1c0000, \h0000000, 0>>, <<-1, 1, \ha926d3, \ha4ae000, -4>>, <<1, 1, \h53935e, \h85baac8, -45>>>>,
      <<<<1, 1, \h1c0000, \h0000000, 0>>, <<-1, 1, \ha926d3, \ha4ae000, -4>>, <<1, 1, \h53935e, \h85baac8, -45>>>>,
      <<<<1, 1, \h1a0000, \h0000000, 0>>, <<-1, 1, \h8c345d, \h631a000, -4>>, <<1, 1, \h37c294, \hd2f5668, -46>>>>,
      <<<<1, 1, \h1a0000, \h0000000, 0>>, <<-1, 1, \h8c345d, \h631a000, -4>>, <<1, 1, \h37c294, \hd2f5668, -46>>>>,
      <<<<1, 1, \h180000, \h0000000, 0>>, <<-1, 1, \h6f0d28, \hae56000, -4>>, <<-1, 1, \h69737c, \h93373da, -45>>>>,
      <<<<1, 1, \h160000, \h0000000, 0>>, <<-1, 1, \h51b073, \hf062000, -4>>, <<1, 1, \hf025b6, \h1c65e57, -46>>>>,
      <<<<1, 1, \h160000, \h0000000, 0>>, <<-1, 1, \h51b073, \hf062000, -4>>, <<1, 1, \hf025b6, \h1c65e57, -46>>>>,
      <<<<1, 1, \h140000, \h0000000, 0>>, <<-1, 1, \h341d79, \h61be000, -4>>, <<1, 1, \hc5edac, \hcf913df, -45>>>>,
      <<<<1, 1, \h140000, \h0000000, 0>>, <<-1, 1, \h341d79, \h61be000, -4>>, <<1, 1, \hc5edac, \hcf913df, -45>>>>,
      <<<<1, 1, \h120000, \h0000000, 0>>, <<-1, 1, \h16536e, \hea38000, -4>>, <<1, 1, \h47c5e7, \h68fa309, -46>>>>,
      <<<<1, 1, \h100000, \h0000000, 0>>, <<-1, 1, \hf0a30c, \h0118000, -5>>, <<1, 1, \hd599e8, \h3368e91, -45>>>>,
      <<<<1, 1, \h100000, \h0000000, 0>>, <<-1, 1, \hf0a30c, \h0118000, -5>>, <<1, 1, \hd599e8, \h3368e91, -45>>>>,
      <<<<1, 1, \h0e0000, \h0000000, 0>>, <<-1, 1, \hb42dd7, \h1198000, -5>>, <<1, 1, \hc827ae, \h5d6704c, -46>>>>,
      <<<<1, 1, \h0e0000, \h0000000, 0>>, <<-1, 1, \hb42dd7, \h1198000, -5>>, <<1, 1, \hc827ae, \h5d6704c, -46>>>>,
      <<<<1, 1, \h0c0000, \h0000000, 0>>, <<-1, 1, \h77458f, \h632c000, -5>>, <<-1, 1, \hcfc463, \h4f2a1ee, -45>>>>,
      <<<<1, 1, \h0c0000, \h0000000, 0>>, <<-1, 1, \h77458f, \h632c000, -5>>, <<-1, 1, \hcfc463, \h4f2a1ee, -45>>>>,
      <<<<1, 1, \h0a0000, \h0000000, 0>>, <<-1, 1, \h39e87b, \h9fec000, -5>>, <<1, 1, \h502b7f, \h526feaa, -48>>>>,
      <<<<1, 1, \h0a0000, \h0000000, 0>>, <<-1, 1, \h39e87b, \h9fec000, -5>>, <<1, 1, \h502b7f, \h526feaa, -48>>>>,
      <<<<1, 1, \h080000, \h0000000, 0>>, <<-1, 1, \hf829b0, \he780000, -6>>, <<-1, 1, \h980267, \hc7e09e4, -45>>>>,
      <<<<1, 1, \h080000, \h0000000, 0>>, <<-1, 1, \hf829b0, \he780000, -6>>, <<-1, 1, \h980267, \hc7e09e4, -45>>>>,
      <<<<1, 1, \h060000, \h0000000, 0>>, <<-1, 1, \h7b91b0, \h7d58000, -6>>, <<-1, 1, \h88d549, \h3faa639, -45>>>>,
      <<<<1, 1, \h040000, \h0000000, 0>>, <<-1, 1, \hfc0a8b, \h0fc0000, -7>>, <<-1, 1, \hf1e7cf, \h6d3a69c, -50>>>>,
      <<<<1, 1, \h040000, \h0000000, 0>>, <<-1, 1, \hfc0a8b, \h0fc0000, -7>>, <<-1, 1, \hf1e7cf, \h6d3a69c, -50>>>>,
      <<<<1, 1, \h020000, \h0000000, 0>>, <<-1, 1, \hfe02a6, \hb100000, -8>>, <<-1, 1, \h9e23f0, \hdda40e4, -46>>>>,
      <<<<1, 1, \h020000, \h0000000, 0>>, <<-1, 1, \hfe02a6, \hb100000, -8>>, <<-1, 1, \h9e23f0, \hdda40e4, -46>>>>,
      <<<<1, 1, \h000000, \h0000000, 0>>, <<1, 0, 0, 0, 0>>, <<1, 0, 0, 0, 0>>>>,
      <<<<1, 1, \h000000, \h0000000, 0>>, <<1, 0, 0, 0, 0>>, <<1, 0, 0, 0, 0>>>>,
      <<<<1, 1, \hfc0000, \h0000000, -1>>, <<1, 1, \h010157, \h5890000, -7>>, <<-1, 1, \h0c76b9, \h99d2be8, -46>>>>,
      <<<<1, 1, \hf80000, \h0000000, -1>>, <<1, 1, \h020565, \h8938000, -6>>, <<-1, 1, \h3dc5b0, \h6e2f7d2, -45>>>>,
      <<<<1, 1, \hf40000, \h0000000, -1>>, <<1, 1, \h849252, \h8c90000, -6>>, <<-1, 1, \haa0ba3, \h25a0c34, -45>>>>,
      <<<<1, 1, \hf00000, \h0000000, -1>>, <<1, 1, \h0415d8, \h9e74000, -5>>, <<1, 1, \h111c05, \hcf1d753, -47>>>>,
      <<<<1, 1, \hec0000, \h0000000, -1>>, <<1, 1, \h466aed, \h42e0000, -5>>, <<-1, 1, \hc16737, \h5bdfd28, -45>>>>,
      <<<<1, 1, \he80000, \h0000000, -1>>, <<1, 1, \h894aa1, \h49fc000, -5>>, <<-1, 1, \h97995d, \h05a267d, -46>>>>,
      <<<<1, 1, \he40000, \h0000000, -1>>, <<1, 1, \hccb73c, \hdddc000, -5>>, <<-1, 1, \ha68f24, \h7d82807, -46>>>>,
      <<<<1, 1, \he20000, \h0000000, -1>>, <<1, 1, \heea31c, \h006c000, -5>>, <<-1, 1, \he113e4, \hfc93b7b, -47>>>>,
      <<<<1, 1, \hde0000, \h0000000, -1>>, <<1, 1, \h1973bd, \h1466000, -4>>, <<-1, 1, \h5325d5, \h60d9e9b, -45>>>>,
      <<<<1, 1, \hda0000, \h0000000, -1>>, <<1, 1, \h3bdf5a, \h7d1e000, -4>>, <<1, 1, \hcc85ea, \h5db4ed7, -45>>>>,
      <<<<1, 1, \hd60000, \h0000000, -1>>, <<1, 1, \h5e95a4, \hd97a000, -4>>, <<-1, 1, \hc69063, \hc5d1d1e, -45>>>>,
      <<<<1, 1, \hd40000, \h0000000, -1>>, <<1, 1, \h700d30, \haeac000, -4>>, <<1, 1, \hc1e8da, \h99ded32, -49>>>>,
      <<<<1, 1, \hd00000, \h0000000, -1>>, <<1, 1, \h9335e5, \hd594000, -4>>, <<1, 1, \h3115c3, \habd47da, -45>>>>,
      <<<<1, 1, \hcc0000, \h0000000, -1>>, <<1, 1, \hb6ac88, \hdad6000, -4>>, <<-1, 1, \h390802, \hbf768e5, -46>>>>,
      <<<<1, 1, \hca0000, \h0000000, -1>>, <<1, 1, \hc88580, \h1bc4000, -4>>, <<1, 1, \h646d1c, \h65aacd3, -45>>>>,
      <<<<1, 1, \hc60000, \h0000000, -1>>, <<1, 1, \hec7398, \h30a2000, -4>>, <<-1, 1, \hdc068a, \hfe645e0, -45>>>>,
      <<<<1, 1, \hc40000, \h0000000, -1>>, <<1, 1, \hfe8913, \h9dbe000, -4>>, <<-1, 1, \h534d64, \hfa10afd, -45>>>>,
      <<<<1, 1, \hc00000, \h0000000, -1>>, <<1, 1, \h1178e8, \h227e000, -3>>, <<1, 1, \h1ef78c, \he2d07f2, -45>>>>,
      <<<<1, 1, \hbe0000, \h0000000, -1>>, <<1, 1, \h1aa2b7, \he23f000, -3>>, <<1, 1, \hca78e4, \h4389934, -45>>>>,
      <<<<1, 1, \hba0000, \h0000000, -1>>, <<1, 1, \h2d1610, \hc868000, -3>>, <<1, 1, \h39d6cc, \hb81b4a1, -47>>>>,
      <<<<1, 1, \hb80000, \h0000000, -1>>, <<1, 1, \h365fcb, \h0159000, -3>>, <<1, 1, \h62fa82, \h34b7289, -51>>>>,
      <<<<1, 1, \hb40000, \h0000000, -1>>, <<1, 1, \h4913d8, \h333b000, -3>>, <<1, 1, \h583795, \h4fdb678, -45>>>>,
      <<<<1, 1, \hb20000, \h0000000, -1>>, <<1, 1, \h527e5e, \h4a1b000, -3>>, <<1, 1, \h633e8e, \h5697dc7, -45>>>>,
      <<<<1, 1, \hae0000, \h0000000, -1>>, <<1, 1, \h6574eb, \he8c1000, -3>>, <<1, 1, \h9cf8b2, \hc3c2e78, -46>>>>,
      <<<<1, 1, \hac0000, \h0000000, -1>>, <<1, 1, \h6f0128, \hb757000, -3>>, <<-1, 1, \h5118de, \h59c21e1, -45>>>>,
      <<<<1, 1, \haa0000, \h0000000, -1>>, <<1, 1, \h7898d8, \h5445000, -3>>, <<-1, 1, \hc66107, \h0914305, -46>>>>,
      <<<<1, 1, \ha60000, \h0000000, -1>>, <<1, 1, \h8beafe, \hb390000, -3>>, <<-1, 1, \h73d54a, \hae92cd1, -47>>>>,
      <<<<1, 1, \ha40000, \h0000000, -1>>, <<1, 1, \h95a5ad, \hcf70000, -3>>, <<1, 1, \h7f2285, \h8a0ff6f, -47>>>>,
      <<<<1, 1, \ha00000, \h0000000, -1>>, <<1, 1, \ha93ed3, \hc8ae000, -3>>, <<-1, 1, \h872435, \h0562169, -45>>>>,
      <<<<1, 1, \h9e0000, \h0000000, -1>>, <<1, 1, \hb31d85, \h75bd000, -3>>, <<-1, 1, \hc358d4, \heace1aa, -47>>>>,
      <<<<1, 1, \h9c0000, \h0000000, -1>>, <<1, 1, \hbd0873, \h83be000, -3>>, <<-1, 1, \hd4bc45, \h95412b6, -45>>>>,
      <<<<1, 1, \h9a0000, \h0000000, -1>>, <<1, 1, \hc6ffbc, \h6f01000, -3>>, <<-1, 1, \h1ec72c, \h5962bd2, -48>>>>,
      <<<<1, 1, \h960000, \h0000000, -1>>, <<1, 1, \hdb13db, \h0d49000, -3>>, <<-1, 1, \haff2af, \h715b035, -45>>>>,
      <<<<1, 1, \h940000, \h0000000, -1>>, <<1, 1, \he530ef, \hfe71000, -3>>, <<1, 1, \h212276, \h041f430, -51>>>>,
      <<<<1, 1, \h920000, \h0000000, -1>>, <<1, 1, \hef5ade, \h4dd0000, -3>>, <<-1, 1, \ha21156, \h5bb8e11, -51>>>>,
      <<<<1, 1, \h900000, \h0000000, -1>>, <<1, 1, \hf991c6, \hcb3b000, -3>>, <<1, 1, \hbcbecc, \ha0cdf30, -46>>>>,
      <<<<1, 1, \h8c0000, \h0000000, -1>>, <<1, 1, \h071386, \h04d5800, -2>>, <<1, 1, \h89cdb1, \h6ed4e91, -48>>>>,
      <<<<1, 1, \h8a0000, \h0000000, -1>>, <<1, 1, \h0c42d6, \h7616000, -2>>, <<1, 1, \h7188b1, \h63ceae9, -45>>>>,
      <<<<1, 1, \h880000, \h0000000, -1>>, <<1, 1, \h1178e8, \h227e800, -2>>, <<-1, 1, \hc210e6, \h3a5f01c, -45>>>>,
      <<<<1, 1, \h860000, \h0000000, -1>>, <<1, 1, \h16b5cc, \hbacf800, -2>>, <<1, 1, \hb9acdf, \h7a51681, -45>>>>,
      <<<<1, 1, \h840000, \h0000000, -1>>, <<1, 1, \h1bf996, \h35a6800, -2>>, <<1, 1, \hca6ed5, \h147bdb7, -45>>>>,
      <<<<1, 1, \h820000, \h0000000, -1>>, <<1, 1, \h214456, \hd0eb800, -2>>, <<1, 1, \ha87deb, \ha46baea, -47>>>>,
      <<<<1, 1, \h7e0000, \h0000000, -1>>, <<1, 1, \h2bef07, \hcdc9000, -2>>, <<1, 1, \ha9cfa4, \ha5004f4, -45>>>>,
      <<<<1, 1, \h7c0000, \h0000000, -1>>, <<1, 1, \h314f1e, \h1d36000, -2>>, <<-1, 1, \h8e27ad, \h3213cb8, -45>>>>,
      <<<<1, 1, \h7a0000, \h0000000, -1>>, <<1, 1, \h36b677, \h6be1000, -2>>, <<1, 1, \h16ecdb, \h0f177c8, -46>>>>,
      <<<<1, 1, \h780000, \h0000000, -1>>, <<1, 1, \h3c2527, \h7333000, -2>>, <<1, 1, \h83b54b, \h606bd5c, -46>>>>,
      <<<<1, 1, \h760000, \h0000000, -1>>, <<1, 1, \h419b42, \h3d5e800, -2>>, <<1, 1, \h8e436e, \hc90e09d, -47>>>>,
      <<<<1, 1, \h740000, \h0000000, -1>>, <<1, 1, \h4718dc, \h271c800, -2>>, <<-1, 1, \hf27ce0, \h967d675, -45>>>>,
      <<<<1, 1, \h720000, \h0000000, -1>>, <<1, 1, \h4c9e09, \he173000, -2>>, <<-1, 1, \he20891, \hb0ad8a4, -45>>>>,
      <<<<1, 1, \h700000, \h0000000, -1>>, <<1, 1, \h522ae0, \h738a000, -2>>, <<1, 1, \hebe708, \h164c759, -45>>>>,
      <<<<1, 1, \h6e0000, \h0000000, -1>>, <<1, 1, \h57bf75, \h3c8d000, -2>>, <<1, 1, \hfadede, \he5d40ef, -46>>>>,
      <<<<1, 1, \h6c0000, \h0000000, -1>>, <<1, 1, \h5d5bdd, \hf596000, -2>>, <<-1, 1, \ha0b2a0, \h8a465dc, -47>>>>>>

pow_log_tab ==
    [i \in 1..128 |-> [invc     |-> FHex(pow_log_data[i][1]),
                       logc     |-> FHex(pow_log_data[i][2]),
                       logctail |-> FHex(pow_log_data[i][3])]]

\* __exp_data: invln2N, shift, negln2hiN, negln2loN, poly (C2 .. C5) and
\* the table of 2^(j/128), j = 0 .. 127: tail is the float of the table's
\* entry 2j and scale the float whose bits are entry 2j+1 plus j * 2^45
InvLn2N == FHex(<<1, 1, \h715476, \h52b82fe, 7>>)

Shift == FHex(<<1, 1, \h800000, \h0000000, 52>>)

NegLn2hiN == FHex(<<-1, 1, \h62e42f, \hefa0000, -8>>)

NegLn2loN == FHex(<<-1, 1, \hcf79ab, \hc9e3b3a, -47>>)

exp_poly_data ==
    <<<<1, 1, \hffffff, \hffffdbd, -2>>,
      <<1, 1, \h555555, \h555543c, -3>>,
      <<1, 1, \h55555c, \hf172b91, -5>>,
      <<1, 1, \h111116, \h7a4d017, -7>>>>

exp_poly == [i \in 1..4 |-> FHex(exp_poly_data[i])]

exp_data ==
    <<<<<<1, 0, 0, 0, 0>>, <<1, 1, \h000000, \h0000000, 0>>>>,
      <<<<1, 1, \hb3b4f1, \ha88bf6e, -54>>, <<1, 1, \h0163da, \h9fb3335, 0>>>>,
      <<<<-1, 1, \h160139, \hcd8dc5d, -56>>, <<1, 1, \h02c9a3, \he778061, 0>>>>,
      <<<<-1, 1, \h05e7a1, \h08766d1, -54>>, <<1, 1, \h04315e, \h86e7f85, 0>>>>,
      <<<<1, 1, \hcd2523, \h567f613, -55>>, <<1, 1, \h059b0d, \h3158574, 0>>>>,
      <<<<-1, 1, \hbce802, \h3f98efa, -55>>, <<1, 1, \h0706b2, \h9ddf6de, 0>>>>,
      <<<<1, 1, \h0f74e6, \h1e6c861, -57>>, <<1, 1, \h087451, \h8759bc8, 0>>>>,
      <<<<1, 1, \h0a3e45, \hb33d399, -54>>, <<1, 1, \h09e3ec, \hac6f383, 0>>>>,
      <<<<1, 1, \h79aa65, \hd837b6d, -54>>, <<1, 1, \h0b5586, \hcf9890f, 0>>>>,
      <<<<1, 1, \heb51a9, \h2fdeffc, -55>>, <<1, 1, \h0cc922, \hb7247f7, 0>>>>,
      <<<<1, 1, \hebe3d7, \h02f9cd1, -60>>, <<1, 1, \h0e3ec3, \h2d3d1a2, 0>>>>,
      <<<<-1, 1, \ha03348, \h9906e0b, -57>>, <<1, 1, \h0fb66a, \hffed31b, 0>>>>,
      <<<<-1, 1, \h556522, \ha2fbd0e, -54>>, <<1, 1, \h11301d, \h0125b51, 0>>>>,
      <<<<-1, 1, \h080ef8, \hc4eea55, -58>>, <<1, 1, \h12abdc, \h06c31cc, 0>>>>,
      <<<<-1, 1, \h1c923b, \h9d5f416, -54>>, <<1, 1, \h1429aa, \hea92de0, 0>>>>,
      <<<<1, 1, \h0d3e3e, \h95c55af, -55>>, <<1, 1, \h15a98c, \h8a58e51, 0>>>>,
      <<<<-1, 1, \h01b15e, \haa59348, -55>>, <<1, 1, \h172b83, \hc7d517b, 0>>>>,
      <<<<-1, 1, \hf1ff05, \h5de323d, -55>>, <<1, 1, \h18af93, \h88c8dea, 0>>>>,
      <<<<1, 1, \hb898c3, \hf1353bf, -55>>, <<1, 1, \h1a35be, \hb6fcb75, 0>>>>,
      <<<<-1, 1, \h6d99c7, \h611eb26, -54>>, <<1, 1, \h1bbe08, \h4045cd4, 0>>>>,
      <<<<1, 1, \haecf73, \he3a2f60, -54>>, <<1, 1, \h1d4873, \h168b9aa, 0>>>>,
      <<<<-1, 1, \hfe782c, \hb86389d, -55>>, <<1, 1, \h1ed502, \h2fcd91d, 0>>>>,
      <<<<1, 1, \ha6f414, \h4a6c38d, -55>>, <<1, 1, \h2063b8, \h8628cd6, 0>>>>,
      <<<<1, 1, \h07a05b, \h0e4047d, -55>>, <<1, 1, \h21f499, \h17ddc96, 0>>>>,
      <<<<1, 1, \h68efde, \h3a8a894, -54>>, <<1, 1, \h2387a6, \he756238, 0>>>>,
      <<<<1, 1, \h75e18f, \h274487d, -55>>, <<1, 1, \h251ce4, \hfb2a63f, 0>>>>,
      <<<<1, 1, \h0472b9, \h81fe7f2, -55>>, <<1, 1, \h26b456, \h5e27cdd, 0>>>>,
      <<<<-1, 1, \h6b87b3, \hf71085e, -54>>, <<1, 1, \h284dfe, \h1f56381, 0>>>>,
      <<<<1, 1, \h2f7e16, \hd09ab31, -55>>, <<1, 1, \h29e9df, \h51fdee1, 0>>>>,
      <<<<-1, 1, \hd219b1, \ha6fbffa, -60>>, <<1, 1, \h2b87fd, \h0dad990, 0>>>>,
      <<<<1, 1, \hb37827, \h20c0ab4, -55>>, <<1, 1, \h2d285a, \h6e4030b, 0>>>>,
      <<<<1, 1, \he14928, \h9cecb8f, -57>>, <<1, 1, \h2ecafa, \h93e2f56, 0>>>>,
      <<<<1, 1, \h34d754, \hdb0abb6, -55>>, <<1, 1, \h306fe0, \ha31b715, 0>>>>,
      <<<<1, 1, \h64201e, \h2ac744c, -55>>, <<1, 1, \h32170f, \hc4cd831, 0>>>>,
      <<<<1, 1, \hfdd395, \hdd3f84a, -55>>, <<1, 1, \h33c08b, \h26416ff, 0>>>>,
      <<<<-1, 1, \h6a3803, \hb8e5b04, -55>>, <<1, 1, \h356c55, \hf929ff1, 0>>>>,
      <<<<-1, 1, \h24aedc, \hc4b5068, -54>>, <<1, 1, \h371a73, \h73aa9cb, 0>>>>,
      <<<<-1, 1, \h907f81, \hb512d8e, -54>>, <<1, 1, \h38cae6, \hd05d866, 0>>>>,
      <<<<-1, 1, \h1d1e83, \he9436d2, -56>>, <<1, 1, \h3a7db3, \h4e59ff7, 0>>>>,
      <<<<-1, 1, \h91919b, \h3ce1b15, -54>>, <<1, 1, \h3c32dc, \h313a8e5, 0>>>>,
      <<<<1, 1, \h59f48a, \h72a4c6d, -55>>, <<1, 1, \h3dea64, \hc123422, 0>>>>,
      <<<<-1, 1, \h312607, \ha28698a, -54>>, <<1, 1, \h3fa450, \h4ac801c, 0>>>>,
      <<<<-1, 1, \h8a78f4, \h817895b, -58>>, <<1, 1, \h4160a2, \h1f72e2a, 0>>>>,
      <<<<-1, 1, \hc2c9b6, \h7499a1b, -56>>, <<1, 1, \h431f5d, \h950a897, 0>>>>,
      <<<<1, 1, \h363ed6, \h0c2ac11, -59>>, <<1, 1, \h44e086, \h061892d, 0>>>>,
      <<<<1, 1, \h666093, \hb0664ef, -54>>, <<1, 1, \h46a41e, \hd1d0057, 0>>>>,
      <<<<1, 1, \hecce1d, \haa10379, -57>>, <<1, 1, \h486a2b, \h5c13cd0, 0>>>>,
      <<<<1, 1, \h3ff8e3, \hf0f1230, -54>>, <<1, 1, \h4a32af, \h0d7d3de, 0>>>>,
      <<<<1, 1, \h690ceb, \hb7aafb0, -56>>, <<1, 1, \h4bfdad, \h5362a27, 0>>>>,
      <<<<1, 1, \h31dbde, \hb54e077, -54>>, <<1, 1, \h4dcb29, \h9fddd0d, 0>>>>,
      <<<<-1, 1, \hf94340, \h071a38e, -55>>, <<1, 1, \h4f9b27, \h69d2ca7, 0>>>>,
      <<<<-1, 1, \h7deccd, \hc93a349, -55>>, <<1, 1, \h516daa, \h2cf6642, 0>>>>,
      <<<<-1, 1, \h8dec6b, \hd0f385f, -56>>, <<1, 1, \h5342b5, \h69d4f82, 0>>>>,
      <<<<-1, 1, \h61246e, \hc7b5cf6, -55>>, <<1, 1, \h551a4c, \ha5d920f, 0>>>>,
      <<<<1, 1, \h335051, \h8fdd78e, -54>>, <<1, 1, \h56f473, \h6b527da, 0>>>>,
      <<<<1, 1, \hb98b72, \hf8a9b05, -56>>, <<1, 1, \h58d12d, \h497c7fd, 0>>>>,
      <<<<1, 1, \h063e1e, \h21c5409, -54>>, <<1, 1, \h5ab07d, \hd485429, 0>>>>,
      <<<<1, 1, \h4c7855, \h019c6ea, -60>>, <<1, 1, \h5c9268, \ha5946b7, 0>>>>,
      <<<<1, 1, \h432e62, \hb64c035, -54>>, <<1, 1, \h5e76f1, \h5ad2148, 0>>>>,
      <<<<-1, 1, \hce44a6, \h199769f, -55>>, <<1, 1, \h605e1b, \h976dc09, 0>>>>,
      <<<<-1, 1, \hc33c53, \hbef4da8, -55>>, <<1, 1, \h6247eb, \h03a5585, 0>>>>,
      <<<<-1, 1, \h453788, \h92be9ae, -55>>, <<1, 1, \h643463, \h4ccc320, 0>>>>,
      <<<<-1, 1, \h3cedd7, \h8565858, -54>>, <<1, 1, \h662388, \h2552225, 0>>>>,
      <<<<1, 1, \h710aa8, \h07e1964, -58>>, <<1, 1, \h68155d, \h44ca973, 0>>>>,
      <<<<-1, 1, \h3b3efb, \hf5e2228, -54>>, <<1, 1, \h6a09e6, \h67f3bcd, 0>>>>,
      <<<<-1, 1, \ha12ad8, \h734b982, -57>>, <<1, 1, \h6c0127, \h50bdabf, 0>>>>,
      <<<<-1, 1, \h367efb, \h86da9ee, -57>>, <<1, 1, \h6dfb23, \hc651a2f, 0>>>>,
      <<<<-1, 1, \h0dc3d5, \h4e08851, -55>>, <<1, 1, \h6ff7df, \h9519484, 0>>>>,
      <<<<-1, 1, \h81f647, \he5a3ecf, -56>>, <<1, 1, \h71f75e, \h8ec5f74, 0>>>>,
      <<<<-1, 1, \h6ee4ac, \h08b7db0, -55>>, <<1, 1, \h73f9a4, \h8a58174, 0>>>>,
      <<<<-1, 1, \h619321, \he55e68a, -55>>, <<1, 1, \h75feb5, \h64267c9, 0>>>>,
      <<<<1, 1, \h09ccb5, \he09d4d3, -54>>, <<1, 1, \h780694, \hfde5d3f, 0>>>>,
      <<<<-1, 1, \hb32dcb, \h94da51d, -56>>, <<1, 1, \h7a1147, \h3eb0187, 0>>>>,
      <<<<1, 1, \h4ecfd5, \h467c06b, -54>>, <<1, 1, \h7c1ed0, \h130c132, 0>>>>,
      <<<<1, 1, \h5ebe1a, \hbd66c55, -57>>, <<1, 1, \h7e2f33, \h6cf4e62, 0>>>>,
      <<<<-1, 1, \h8a1c52, \hfb3cf42, -55>>, <<1, 1, \h804275, \h43e1a12, 0>>>>,
      <<<<-1, 1, \h369b6f, \h13b3734, -54>>, <<1, 1, \h825899, \h94cce13, 0>>>>,
      <<<<-1, 1, \h05e843, \ha19ff1e, -55>>, <<1, 1, \h8471a4, \h623c7ad, 0>>>>,
      <<<<-1, 1, \h4d450d, \h872576e, -54>>, <<1, 1, \h868d99, \hb4492ed, 0>>>>,
      <<<<1, 1, \h0ad675, \hb0e8a00, -54>>, <<1, 1, \h88ac7d, \h98a6699, 0>>>>,
      <<<<1, 1, \hdb72fc, \h1f0eab4, -55>>, <<1, 1, \h8ace54, \h22aa0db, 0>>>>,
      <<<<-1, 1, \h5b6609, \hcc5e7ff, -57>>, <<1, 1, \h8cf321, \h6b5448c, 0>>>>,
      <<<<1, 1, \hbf6835, \h9f35f44, -56>>, <<1, 1, \h8f1ae9, \h9157736, 0>>>>,
      <<<<-1, 1, \h3091fa, \h71e3d83, -54>>, <<1, 1, \h9145b0, \hb91ffc6, 0>>>>,
      <<<<-1, 1, \hda9b88, \hb6c1e29, -58>>, <<1, 1, \h93737b, \h0cdc5e5, 0>>>>,
      <<<<-1, 1, \hc23f97, \hc90b959, -57>>, <<1, 1, \h95a44c, \hbc8520f, 0>>>>,
      <<<<-1, 1, \h243432, \h2f4f9aa, -54>>, <<1, 1, \h97d829, \hfde4e50, 0>>>>,
      <<<<-1, 1, \h5ca6cd, \h7668e4b, -55>>, <<1, 1, \h9a0f17, \h0ca07ba, 0>>>>,
      <<<<1, 1, \h1affc2, \hb91ce27, -56>>, <<1, 1, \h9c4918, \h2a3f090, 0>>>>,
      <<<<1, 1, \hdd235e, \h10a73bb, -57>>, <<1, 1, \h9e8631, \h9e32323, 0>>>>,
      <<<<-1, 1, \h7c5042, \h2622263, -55>>, <<1, 1, \ha0c667, \hb5de565, 0>>>>,
      <<<<1, 1, \hb1c86e, \h3e231d5, -55>>, <<1, 1, \ha309be, \hc4a2d33, 0>>>>,
      <<<<-1, 1, \h1bbd1d, \h3bcbb15, -54>>, <<1, 1, \ha5503b, \h23e255d, 0>>>>,
      <<<<1, 1, \h0cc319, \hcee31d2, -54>>, <<1, 1, \ha799e1, \h330b358, 0>>>>,
      <<<<1, 1, \h469846, \he735ab3, -55>>, <<1, 1, \ha9e6b5, \h579fdbf, 0>>>>,
      <<<<-1, 1, \h2dfcd9, \h78e9db4, -55>>, <<1, 1, \hac36bb, \hfd3f37a, 0>>>>,
      <<<<1, 1, \hc1a779, \h2cb3387, -55>>, <<1, 1, \hae89f9, \h95ad3ad, 0>>>>,
      <<<<-1, 1, \h07b8f4, \had1d9fa, -54>>, <<1, 1, \hb0e072, \h98db666, 0>>>>,
      <<<<-1, 1, \h5c3d95, \h6dcaeba, -58>>, <<1, 1, \hb33a2b, \h84f15fb, 0>>>>,
      <<<<-1, 1, \h0a40e3, \hda6f640, -54>>, <<1, 1, \hb59728, \hde5593a, 0>>>>,
      <<<<-1, 1, \h8d6f43, \h8ad9334, -57>>, <<1, 1, \hb7f76f, \h2fb5e47, 0>>>>,
      <<<<-1, 1, \h1eee26, \hb588a35, -54>>, <<1, 1, \hba5b03, \h0a1064a, 0>>>>,
      <<<<1, 1, \h4ffd70, \ha5fddcd, -56>>, <<1, 1, \hbcc1e9, \h04bc1d2, 0>>>>,
      <<<<-1, 1, \h1bdfbf, \ha9298ac, -54>>, <<1, 1, \hbf2c25, \hbd71e09, 0>>>>,
      <<<<1, 1, \h36eae3, \h0af0cb3, -56>>, <<1, 1, \hc199bd, \hd85529c, 0>>>>,
      <<<<1, 1, \hee3325, \hc9ffd94, -55>>, <<1, 1, \hc40ab5, \hfffd07a, 0>>>>,
      <<<<1, 1, \h4e08fd, \h10959ac, -55>>, <<1, 1, \hc67f12, \he57d14b, 0>>>>,
      <<<<1, 1, \h3cdaf3, \h84e1a67, -57>>, <<1, 1, \hc8f6d9, \h406e7b5, 0>>>>,
      <<<<1, 1, \h76b2c6, \hc921968, -57>>, <<1, 1, \hcb720d, \hcef9069, 0>>>>,
      <<<<-1, 1, \h08a188, \h3ccb5d2, -55>>, <<1, 1, \hcdf0b5, \h55dc3fa, 0>>>>,
      <<<<-1, 1, \hfad5d3, \hffffa6f, -55>>, <<1, 1, \hd072d4, \ha07897c, 0>>>>,
      <<<<-1, 1, \h00dae3, \h875a949, -54>>, <<1, 1, \hd2f870, \h80d89f2, 0>>>>,
      <<<<1, 1, \h4a385a, \h63d07a7, -56>>, <<1, 1, \hd5818d, \hcfba487, 0>>>>,
      <<<<-1, 1, \h2919e2, \h040220f, -55>>, <<1, 1, \hd80e31, \h6c98398, 0>>>>,
      <<<<1, 1, \he5a50d, \h5c192ac, -55>>, <<1, 1, \hda9e60, \h3db3285, 0>>>>,
      <<<<1, 1, \h43a59a, \hc016b4b, -55>>, <<1, 1, \hdd321f, \h301b460, 0>>>>,
      <<<<-1, 1, \h2d5210, \h7b43e1f, -55>>, <<1, 1, \hdfc973, \h37b9b5f, 0>>>>,
      <<<<-1, 1, \h92ab93, \hb470dc9, -55>>, <<1, 1, \he26461, \h4f5a129, 0>>>>,
      <<<<1, 1, \h4b6046, \h03a88d3, -56>>, <<1, 1, \he502ee, \h78b3ff6, 0>>>>,
      <<<<1, 1, \h3c5ec5, \h19d7271, -55>>, <<1, 1, \he7a51f, \hbc74c83, 0>>>>,
      <<<<-1, 1, \hff7128, \hfd391f0, -55>>, <<1, 1, \hea4afa, \h2a490da, 0>>>>,
      <<<<-1, 1, \hdae98e, \h223747d, -55>>, <<1, 1, \hecf482, \hd8e67f1, 0>>>>,
      <<<<1, 1, \hec3bc4, \h1aa2008, -55>>, <<1, 1, \hefa1be, \he615a27, 0>>>>,
      <<<<1, 1, \h42b94c, \h3a9eb32, -55>>, <<1, 1, \hf252b3, \h76bba97, 0>>>>,
      <<<<1, 1, \ha64a93, \h1d185ee, -55>>, <<1, 1, \hf50765, \hb6e4540, 0>>>>,
      <<<<-1, 1, \he37bae, \h43be3ed, -55>>, <<1, 1, \hf7bfda, \hd9cbe14, 0>>>>,
      <<<<1, 1, \h7893b4, \hd91cd9d, -56>>, <<1, 1, \hfa7c18, \h19e90d8, 0>>>>,
      <<<<1, 1, \h305c14, \h160cc89, -58>>, <<1, 1, \hfd3c22, \hb8f71f1, 0>>>>>>

exp_tab ==
    [j \in 1..128 |-> [tail |-> FHex(exp_data[j][1]), scale |-> FHex(exp_data[j][2])]]

\* specialcase, k < 0: y rounded to the precision it has once scaled into
\* the subnormal range; a zero gets the sign of scale, which is positive
specialcase_zero(y) == IF FIsZero(y) THEN FZero ELSE y

specialcase_hi(y, one, lo, hi) ==
    specialcase_zero(FSub(FAdd(FAdd(FAdd(FSub(one, hi), y), lo), hi), one))

specialcase_round(scale, st, y, one) ==
    specialcase_hi(y, one, FAdd(FSub(scale, y), st), FAdd(one, y))

\* y = scale + scale * tmp, rounded as above when |y| < 1, times 2^-1022
specialcase_small(scale, st, y) ==
    FMul(FPow2(-1022),
         IF FCmp(FAbs(y), FInt(1)) = -1
         THEN specialcase_round(scale, st, y, IF FCmp(y, FZero) = -1 THEN FInt(-1) ELSE FInt(1))
         ELSE y)

specialcase_down(tmp, scale) == specialcase_small(scale, FMul(tmp, scale), FAdd(scale, FMul(tmp, scale)))

\* specialcase, k > 0: 0x1p1009 * (scale + scale * tmp), here fused
specialcase_up(tmp, scale) == FMul(FPow2(1009), FFma(scale, tmp, scale))

\* The result when 512 <= |x| < 1024: the exponent of scale is moved by
\* -1009 or 1022 to keep scale in range, and the result moved back
specialcase(tmp, scale, k) ==
    IF k >= 0 THEN specialcase_up(tmp, FScale(scale, (k \div 128) - 1009))
    ELSE specialcase_down(tmp, FScale(scale, (k \div 128) + 1022))

\* scale + scale * tmp
exp_scaled(tmp, scale) == FFma(tmp, scale, scale)

\* exp(x) = 2^(k/N) * exp(r) ~= scale + scale * tmp, scale being 2^(k/N)
exp_result(x, k, scale, tmp) ==
    IF x.e + Precision - 1 < 9 THEN exp_scaled(tmp, FScale(scale, k \div 128))
    ELSE specialcase(tmp, scale, k)

\* tmp = tail + r + r2 * (C2 + r * C3) + r2 * r2 * (C4 + r * C5)
exp_tmp(x, k, r, r2, row) ==
    exp_result(x, k, row.scale,
               FFma(FFma(r, exp_poly[4], exp_poly[3]), FMul(r2, r2),
                    FFma(FFma(r, exp_poly[2], exp_poly[1]), r2, FAdd(r, row.tail))))

exp_r2(x, k, r) == exp_tmp(x, k, r, FMul(r, r), exp_tab[1 + (k % 128)])

\* r = x + kd * NegLn2hiN + kd * NegLn2loN, then r += xtail
exp_r(x, xtail, kd) ==
    exp_r2(x, FToInt(kd), FAdd(xtail, FFma(kd, NegLn2loN, FFma(kd, NegLn2hiN, x))))

\* kd = InvLn2N * x + Shift, fused; then kd -= Shift
exp_kd(x, xtail) == exp_r(x, xtail, FSub(FFma(x, InvLn2N, Shift), Shift))

\* exp(x + xtail): 1 + x for |x| < 2^-54, __math_uflow or __math_oflow for
\* |x| >= 1024
exp_inline(x, xtail) ==
    IF FIsZero(x) \/ x.e + Precision - 1 < -54 THEN FAdd(FInt(1), x)
    ELSE IF x.e + Precision - 1 >= 10 THEN (IF x.s < 0 THEN FZero ELSE FInf(1))
    ELSE exp_kd(x, xtail)

\* ehi = y * hi and elo = y * lo + fma(y, hi, -ehi), for log(x) = hi + lo
pow_elo(y, lo, hi, ehi) == exp_inline(ehi, FFma(y, lo, FFma(hi, y, FNeg(ehi))))

pow_ehi(y, lo, hi) == pow_elo(y, lo, hi, FMul(y, hi))

\* y = hi + lo and *tail = hi - y + lo
log_tail(y, hi, lo, lhi) == pow_ehi(y, FAdd(FSub(hi, lhi), lo), lhi)

log_y(y, hi, lo) == log_tail(y, hi, lo, FAdd(hi, lo))

\* lo = lo1 + lo2 + lo3 + lo4 + p, for lo2 = t1 - t2 + r,
\* lo3 = fma(ar, r, -ar2), lo4 = t2 - hi + ar2 and
\* p = ar3 * (A[1] + r * A[2] + ar2 * (A[3] + r * A[4] + ar2 * (A[5] + r * A[6])))
log_lo(y, r, t1, lo1, ar, t2, ar2, hi) ==
    log_y(y, hi,
          FFma(FMul(r, ar2),
               FFma(ar2,
                    FFma(FFma(r, pow_log_poly[7], pow_log_poly[6]), ar2,
                         FFma(r, pow_log_poly[5], pow_log_poly[4])),
                    FFma(r, pow_log_poly[3], pow_log_poly[2])),
               FAdd(FAdd(FAdd(lo1, FAdd(FSub(t1, t2), r)), FFma(ar, r, FNeg(ar2))),
                    FAdd(FSub(t2, hi), ar2))))

\* hi = t2 + ar2
log_hi(y, r, t1, lo1, ar, t2, ar2) == log_lo(y, r, t1, lo1, ar, t2, ar2, FAdd(t2, ar2))

\* ar2 = r * ar
log_ar2(y, r, t1, lo1, ar, t2) == log_hi(y, r, t1, lo1, ar, t2, FMul(r, ar))

\* ar = A[0] * r and t2 = t1 + r
log_ar(y, r, t1, lo1) == log_ar2(y, r, t1, lo1, FMul(pow_log_poly[1], r), FAdd(t1, r))

\* r = fma(z, invc, -1.0), t1 = kd * Ln2hi + logc and lo1 = kd * Ln2lo + logctail,
\* the last two fused
log_r(y, z, kd, row) ==
    log_ar(y, FFma(z, row.invc, FInt(-1)), FFma(kd, Ln2hi, row.logc),
           FFma(kd, Ln2lo, row.logctail))

\* The fraction bits of OFF = 0x3fe6955500000000
pow_log_OFF == BShl(BFromInt(\h69555), 32)

\* x = 2^k z for z in [OFF, 2 OFF): upper tells that the fraction bits of x
\* reach those of OFF, and then z is below 1.  The interval i of z is the
\* top seven bits of the distance of x's bits from OFF.
log_inline(x, y, upper) ==
    log_r(y,
          [s |-> 1, m |-> x.m, e |-> IF upper THEN -Precision ELSE 1 - Precision],
          FInt(x.e + Precision - (IF upper THEN 0 ELSE 1)),
          pow_log_tab[1 + BToInt(BShr(BSub(x.m,
                                           IF upper
                                           THEN BAdd(pow_log_OFF, BShl(<<1>>, Precision - 1))
                                           ELSE pow_log_OFF),
                                      45))])

pow(x, y) == log_inline(x, y, BCmp(BLow(x.m, Precision - 1), pow_log_OFF) >= 0)

(***************************************************************************)
(* x ** n for a float x and a Python int n: CPython's float_pow            *)
(***************************************************************************)
\* pow's result ix, negated for a negative base and an odd exponent; an
\* infinite result is an OverflowError
float_pow_result(ix, negate_result) ==
    IF FIsInf(ix) THEN Raise("OverflowError")
    ELSE Return(IF negate_result THEN FNeg(ix) ELSE ix)

FPow(x, n) ==
    IF n = 0 THEN Return(FInt(1))
    ELSE IF FIsNaN(x) THEN Return(x)
    ELSE IF FIsInf(x)
    THEN Return(IF n > 0 THEN (IF n % 2 = 1 THEN x ELSE FInf(1))
                ELSE (IF n % 2 = 1 THEN FSignedZero(x.s) ELSE FZero))
    ELSE IF FIsZero(x)
    THEN (IF n < 0 THEN Raise("ZeroDivisionError")
          ELSE Return(IF n % 2 = 1 THEN x ELSE FZero))
    ELSE IF FAbs(x) = FInt(1)
    THEN Return(IF x.s < 0 /\ n % 2 = 1 THEN FInt(-1) ELSE FInt(1))
    ELSE float_pow_result(pow(FAbs(x), FInt(n)), x.s < 0 /\ n % 2 = 1)

(***************************************************************************)
(* annuity(n, r): n a Python int, r a float                                *)
(***************************************************************************)
\* a / b for Python floats: a zero divisor raises
float_div(a, b) ==
    IF FIsZero(b) THEN Raise("ZeroDivisionError") ELSE Return(FDiv(a, b))

\* r/(1. - u) for the outcome u of 1./(1.+r)**n
annuity_quotient(r, u) ==
    IF u.exc # "none" THEN u ELSE float_div(r, FSub(FInt(1), u.val))

\* The return statement for the outcome p of (1.+r)**n
annuity_power(r, p) ==
    IF p.exc # "none" THEN p ELSE annuity_quotient(r, float_div(FInt(1), p.val))

annuity(n, r) ==
    IF FCmp(r, FZero) = 1
    THEN annuity_power(r, FPow(FAdd(FInt(1), r), n))
    ELSE IF n = 0 THEN Raise("ZeroDivisionError")
    ELSE Return(FDiv(FInt(1), FInt(n)))

(***************************************************************************)
(* Python containers.  A dict is its items in insertion order, each key    *)
(* once; a list and a numpy array are their elements.                      *)
(***************************************************************************)
Dict(items)    == [type |-> "dict", items |-> items]
List(items)    == [type |-> "list", items |-> items]
NdArray(items) == [type |-> "ndarray", items |-> items]

\* DictZip with the values taken from the second on: key i gets value i + 1
DictZip_from_second_value(keys, values) ==
    LET n      == Min(Len(keys), Len(values) - 1)
        firsts == {i \in 1..n : \A j \in 1..(i - 1) : keys[j] # keys[i]}
        nth(p) == CHOOSE i \in firsts : Cardinality({j \in firsts : j < i}) = p - 1
        last(k) == CHOOSE i \in 1..n : keys[i] = k /\ \A j \in (i + 1)..n : keys[j] # k
    IN  IF n <= 0 THEN Dict(<<>>)
        ELSE Dict(SubSeq([p \in 1..Cardinality(firsts) |->
                             <<keys[nth(p)], values[last(keys[nth(p)]) + 1]>>],
                         1, Cardinality(firsts)))

\* {k: v for k, v in zip(keys, values)}: zip stops at the shorter sequence, a
\* repeated key keeps its first place and takes its last value
DictZip(keys, values) ==
    LET n      == Min(Len(keys), Len(values))
        firsts == {i \in 1..n : \A j \in 1..(i - 1) : keys[j] # keys[i]}
        nth(p) == CHOOSE i \in firsts : Cardinality({j \in firsts : j < i}) = p - 1
        last(k) == CHOOSE i \in 1..n : keys[i] = k /\ \A j \in (i + 1)..n : keys[j] # k
    IN  IF n = 0 THEN Dict(<<>>)
        ELSE Dict(SubSeq([p \in 1..Cardinality(firsts) |->
                             <<keys[nth(p)], values[last(keys[nth(p)])]>>],
                         1, Cardinality(firsts)))

DictKeys(d) == SubSeq([p \in 1..Len(d.items) |-> d.items[p][1]], 1, Len(d.items))

DictHas(d, k) == \E p \in 1..Len(d.items) : d.items[p][1] = k

\* d[k] for a key d has
DictGet(d, k) == d.items[CHOOSE p \in 1..Len(d.items) : d.items[p][1] = k][2]

(***************************************************************************)
(* numpy arrays of floats: np.array of decimal literals, each written      *)
(* <<num, k>> for num / 10^k, and the element-by-element operations        *)
(***************************************************************************)
np_array(literals) ==
    SubSeq([i \in 1..Len(literals) |-> FLit(literals[i][1], literals[i][2])],
           1, Len(literals))

\* a * c for an array a and a scalar c
ArrayTimes(a, c) == SubSeq([i \in 1..Len(a) |-> FMul(a[i], c)], 1, Len(a))

\* a / c for an array a and a scalar c
ArrayOver(a, c) == SubSeq([i \in 1..Len(a) |-> FDiv(a[i], c)], 1, Len(a))

\* a * b for arrays of one length
ArrayProduct(a, b) == SubSeq([i \in 1..Len(a) |-> FMul(a[i], b[i])], 1, Len(a))

\* a / b for arrays of one length
ArrayQuotient(a, b) == SubSeq([i \in 1..Len(a) |-> FDiv(a[i], b[i])], 1, Len(a))

\* annuity(lifetime, 0.07)*cost*(1+0.03)
annualized(lifetime, cost) ==
    FMul(FMul(annuity(lifetime, FLit(7, 2)).val, cost), FAdd(FInt(1), FLit(3, 2)))

\* annualized, row by row
ArrayAnnualized(years, costs) ==
    SubSeq([i \in 1..Len(costs) |-> annualized(years[i], costs[i])], 1, Len(costs))

(***************************************************************************)
(* load_generator_data                                                     *)
(***************************************************************************)
dollar2euro_initial == FLit(9239, 4)

kJ2MWh == FDiv(FInt(1), FInt((10 ^ 3) * (60 ^ 2)))

MMBtu2MWh == FLit(293, 3)

coal_energy_density == FMul(FDiv(FInt(24), FInt(60 ^ 2)), FInt(10 ^ 3))

lifetimes == <<30, 25, 25, 15, 40, 25>>

capital_costs ==
    ArrayTimes(np_array(<<<<1333, 3>>, <<26, 2>>, <<435, 3>>, <<175, 2>>, <<9, 0>>,
                          <<31, 1>>>>),
               FInt(10 ^ 6))

\* The values of the comprehension of dict_capital_costs_annualized, one
\* for each row of capital_costs and lifetimes
capital_costs_annualized == ArrayAnnualized(lifetimes, capital_costs)

efficiencies ==
    np_array(<<<<1, 0>>, <<1, 0>>, <<43, 2>>, <<4, 1>>, <<1, 0>>, <<305, 3>>>>)

\* The two emission literals, 52.91 and 95.99, over 10**3
co2_emissions == ArrayOver(np_array(<<<<5291, 2>>, <<9599, 2>>>>), FInt(10 ^ 3))

gas_co2_emissions == co2_emissions[1]

coal_co2_emissions == co2_emissions[2]

\* The literals 41.97, 129.54 and 10.11 of fuel_costs_dollars
fuel_prices == np_array(<<<<4197, 2>>, <<12954, 2>>, <<1011, 2>>>>)

fuel_costs_dollars ==
    <<FZero, FZero, fuel_prices[1], FDiv(fuel_prices[2], coal_energy_density),
      fuel_prices[3],
      FDiv(FDiv(FDiv(FInt(41), FInt(10 ^ 3)), FInt(19970)), kJ2MWh)>>

\* fuel_costs_dollars * np.array([0, 0, dollar2euro, ...]), element by element
fuel_costs ==
    ArrayProduct(fuel_costs_dollars,
                 <<FZero, FZero, dollar2euro, dollar2euro, dollar2euro, dollar2euro>>)

\* gas_co2_emissions/MMBtu2MWh and coal_co2_emissions/MMBtu2MWh
co2_per_MWh == ArrayOver(<<gas_co2_emissions, coal_co2_emissions>>, MMBtu2MWh)

\* CO2_emissions with the two factors one row early
CO2_emissions_one_row_early ==
    <<FZero, co2_per_MWh[1], co2_per_MWh[2], FZero, FZero, FZero>>

CO2_emissions ==
    <<FZero, FZero, co2_per_MWh[1], co2_per_MWh[2], FZero, FZero>>

\* {tech: dict_fuel_costs[tech] / dict_efficiencies[tech] for tech in techs_labels}:
\* every label is looked up, also those past the sixth, which no dict holds
dict_marginal_costs(techs_labels, dict_fuel_costs, dict_efficiencies) ==
    IF \E i \in 1..Len(techs_labels) : ~DictHas(dict_fuel_costs, techs_labels[i])
    THEN Raise("KeyError")
    ELSE Return(DictZip(techs_labels,
                        SubSeq([i \in 1..Len(techs_labels) |->
                                   FDiv(DictGet(dict_fuel_costs, techs_labels[i]),
                                        DictGet(dict_efficiencies, techs_labels[i]))],
                               1, Len(techs_labels))))

\* The return statement, reached unless building dict_marginal_costs raised
generator_data(dict_capital_costs_annualized, marginal, dict_efficiencies) ==
    IF marginal.exc # "none" THEN marginal
    ELSE Return(<<dict_capital_costs_annualized, marginal.val,
                  dict_efficiencies, List(CO2_emissions)>>)

\* The function from the line that builds dict_marginal_costs on
generator_data_from(techs_labels, dict_capital_costs, dict_fuel_costs, dict_efficiencies) ==
    generator_data(dict_capital_costs,
                   dict_marginal_costs(techs_labels, dict_fuel_costs, dict_efficiencies),
                   dict_efficiencies)

load_generator_data(techs_labels) ==
    generator_data_from(techs_labels,
                        DictZip(techs_labels, capital_costs_annualized),
                        DictZip(techs_labels, fuel_costs),
                        DictZip(techs_labels, efficiencies))

(***************************************************************************)
(* load_storage_units_data                                                 *)
(***************************************************************************)
\* np.array([120/800, 3.5/7, 0.5/2])
Crates ==
    ArrayQuotient(np_array(<<<<120, 0>>, <<35, 1>>, <<5, 1>>>>),
                  np_array(<<<<800, 0>>, <<7, 0>>, <<2, 0>>>>))

capital_costs_storageunits_MWh ==
    ArrayTimes(np_array(<<<<63, 3>>, <<66, 2>>, <<37, 2>>>>), FInt(10 ^ 6))

capital_costs_storageunits == ArrayQuotient(capital_costs_storageunits_MWh, Crates)

lifetimes_storageunits == <<25, 25, 20>>

\* The values of the comprehension of dict_capital_costs_annualized_storageunits
capital_costs_annualized_storageunits ==
    ArrayAnnualized(lifetimes_storageunits, capital_costs_storageunits)

round_trip_efficiencies == np_array(<<<<3, 1>>, <<92, 2>>, <<78, 2>>>>)

\* [np.sqrt(0.3), np.sqrt(0.92), np.sqrt(0.78)]
sqrt_round_trip_efficiencies ==
    SubSeq([i \in 1..3 |-> FSqrt(round_trip_efficiencies[i])], 1, 3)

efficiencies_in(techs_labels_storageunits) ==
    DictZip(techs_labels_storageunits, sqrt_round_trip_efficiencies)

\* efficiencies_out without the square roots
efficiencies_out_round_trip(techs_labels_storageunits) ==
    DictZip(techs_labels_storageunits, round_trip_efficiencies)

efficiencies_out(techs_labels_storageunits) ==
    DictZip(techs_labels_storageunits, sqrt_round_trip_efficiencies)

\* np.array([0.9, 0.1, 0.0])/100/24
hourly_losses_values ==
    ArrayOver(ArrayOver(np_array(<<<<9, 1>>, <<1, 1>>, <<0, 1>>>>), FInt(100)), FInt(24))

load_storage_units_data(techs_labels_storageunits) ==
    Return(<<DictZip(techs_labels_storageunits, capital_costs_annualized_storageunits),
             efficiencies_in(techs_labels_storageunits),
             efficiencies_out(techs_labels_storageunits),
             NdArray(Crates),
             DictZip(techs_labels_storageunits, hourly_losses_values)>>)

(***************************************************************************)
(* load_hydro_cost                                                         *)
(***************************************************************************)
lifetime_hydro == 75

load_hydro_cost ==
    Return(annualized(lifetime_hydro, FMul(FMul(FInt(1628), dollar2euro), FInt(10 ^ 3))))

(***************************************************************************)
(* The calls explored                                                      *)
(***************************************************************************)
annuity_call(n, r) == [fn |-> "annuity", n |-> n, r |-> r, labels |-> <<>>]

loader_call(fn, labels) == [fn |-> fn, n |-> 0, r |-> FZero, labels |-> labels]

MaxN == 4

MaxLabels == 7

MaxStorageLabels == 4

\* Lifetimes: none, negative, short, and the 30 years of the first data row
NSet == (-2..MaxN) \cup {30}

\* Rates: -0.5, 0.0, 2**-53, 1e-15, 0.07, 0.155, 0.5, 1.0, 2**1000
RSet ==
    {FNeg(FLit(5, 1)), FZero, FPow2(-53), FLit(1, 15), FLit(7, 2), FLit(155, 3),
     FLit(5, 1), FInt(1), FPow2(1000)}

techs == <<"wind", "solar", "OCGT", "coal", "biomass", "nuclear", "hydro", "gas", "oil">>

storage_techs == <<"carnot", "Li-ion", "VRFB", "hydrogen", "PHS", "CAES">>

Prefixes(labels, max) == {SubSeq(labels, 1, k) : k \in 0..Min(max, Len(labels))}

GeneratorLabels ==
    Prefixes(techs, MaxLabels)
        \cup {<<"solar", "wind">>, <<"wind", "wind">>, <<"wind", "solar", "wind">>,
              <<"coal", "OCGT", "wind", "solar">>,
              <<"wind", "solar", "OCGT", "coal", "biomass", "nuclear", "wind">>}

StorageLabels ==
    Prefixes(storage_techs, MaxStorageLabels)
        \cup {<<"Li-ion", "carnot">>, <<"VRFB", "VRFB">>, <<"carnot", "Li-ion", "carnot">>}

AnnuityCalls == {annuity_call(n, r) : n \in NSet, r \in RSet}

LoaderCalls ==
    {loader_call("load_generator_data", l) : l \in GeneratorLabels}
        \cup {loader_call("load_storage_units_data", l) : l \in StorageLabels}
        \cup {loader_call("load_hydro_cost", <<>>)}

\* Calls put between two equal calls
Between ==
    {loader_call("load_hydro_cost", <<>>), annuity_call(1, FLit(7, 2)),
     loader_call("load_generator_data", SubSeq(techs, 1, 6)),
     loader_call("load_storage_units_data", SubSeq(storage_techs, 1, 3))}

\* The client programs: one call; two annuity calls for the same lifetime;
\* a loader call, any other call, and the loader call again
Scripts ==
    {<<c>> : c \in AnnuityCalls \cup LoaderCalls}
        \cup {s \in AnnuityCalls \X AnnuityCalls : s[1].n = s[2].n}
        \cup {<<c, d, c>> : c \in LoaderCalls, d \in Between}

(***************************************************************************)
(* The state machine: the client makes its calls one after the other       *)
(***************************************************************************)
Init ==
    /\ dollar2euro = dollar2euro_initial
    /\ pending \in Scripts
    /\ history = <<>>

call_annuity ==
    /\ pending # <<>>
    /\ Head(pending).fn = "annuity"
    /\ history' = Append(history, [call |-> Head(pending),
                                   out  |-> annuity(Head(pending).n, Head(pending).r)])
    /\ pending' = Tail(pending)
    /\ UNCHANGED dollar2euro

\* call_load_generator_data with the conversion rate rebound to 1 by the call
call_load_generator_data_rebinding ==
    /\ pending # <<>>
    /\ Head(pending).fn = "load_generator_data"
    /\ history' = Append(history, [call |-> Head(pending),
                                   out  |-> load_generator_data(Head(pending).labels)])
    /\ pending' = Tail(pending)
    /\ dollar2euro' = FInt(1)

call_load_generator_data ==
    /\ pending # <<>>
    /\ Head(pending).fn = "load_generator_data"
    /\ history' = Append(history, [call |-> Head(pending),
                                   out  |-> load_generator_data(Head(pending).labels)])
    /\ pending' = Tail(pending)
    /\ UNCHANGED dollar2euro

call_load_storage_units_data ==
    /\ pending # <<>>
    /\ Head(pending).fn = "load_storage_units_data"
    /\ history' = Append(history, [call |-> Head(pending),
                                   out  |-> load_storage_units_data(Head(pending).labels)])
    /\ pending' = Tail(pending)
    /\ UNCHANGED dollar2euro

call_load_hydro_cost ==
    /\ pending # <<>>
    /\ Head(pending).fn = "load_hydro_cost"
    /\ history' = Append(history, [call |-> Head(pending), out |-> load_hydro_cost])
    /\ pending' = Tail(pending)
    /\ UNCHANGED dollar2euro

Next ==
    \/ call_annuity
    \/ call_load_generator_data
    \/ call_load_storage_units_data
    \/ call_load_hydro_cost

Spec == Init /\ [][Next]_vars

(***************************************************************************)
(* Vocabulary of the properties                                            *)
(***************************************************************************)
\* The positions of history holding a call of fn
Made(fn) == {i \in 1..Len(history) : history[i].call.fn = fn}

Distinct(labels) ==
    \A i \in 1..Len(labels) : \A j \in 1..Len(labels) : i # j => labels[i] # labels[j]

LabelSet(labels) == {labels[i] : i \in 1..Len(labels)}

KeySet(d) == {d.items[p][1] : p \in 1..Len(d.items)}

IsMappingOver(d, labels, rows) ==
    /\ d.type = "dict"
    /\ KeySet(d) \subseteq LabelSet(labels)
    /\ Len(labels) <= rows => KeySet(d) = LabelSet(labels)

\* The pairs <<labels[p], row(p)>> for the positions p of labels
Aligned(labels, row(_)) ==
    SubSeq([p \in 1..Len(labels) |-> <<labels[p], row(p)>>], 1, Len(labels))

\* The position, among the first rows, at which key k occurs last in labels
LastPosition(labels, k, rows) ==
    CHOOSE j \in 1..Min(Len(labels), rows) :
        labels[j] = k /\ \A j2 \in (j + 1)..Min(Len(labels), rows) : labels[j2] # k

\* a * 2^ea <= b * 2^eb for naturals a and b
ScaledLeq(a, ea, b, eb) ==
    BCmp(BShl(a, ea - Min(ea, eb)), BShl(b, eb - Min(ea, eb))) <= 0

\* v is the float nearest the real square root of the float y > 0:
\* (v - ulp/2)^2 <= y <= (v + ulp/2)^2
IsSqrtOf(v, y) ==
    /\ FIsNumber(v)
    /\ v.s = 1
    /\ LET lo == BSub(BShl(v.m, 1), <<1>>)
           hi == BAdd(BShl(v.m, 1), <<1>>)
       IN  /\ ScaledLeq(BMul(lo, lo), 2 * v.e - 2, y.m, y.e)
           /\ ScaledLeq(y.m, y.e, BMul(hi, hi), 2 * v.e - 2)

\* v is within the relative distance 2^-bits of the real number
\* r / (1 - (1+r)^(-n)) = r * (1+r)^n / ((1+r)^n - 1), for n > 0 and a float r > 0
NearAnnuityFactor(v, n, r, bits) ==
    /\ FIsNumber(v)
    /\ v.s = 1
    /\ LET k  == IF r.e < 0 THEN -r.e ELSE 0
           A  == BAdd(BShl(<<1>>, k), BShl(r.m, r.e + k))
           P  == BPow(A, n)
           D  == BSub(P, BShl(<<1>>, k * n))
           em == Min(v.e, r.e)
           X  == BShl(BMul(v.m, D), v.e - em)
           Y  == BShl(BMul(r.m, P), r.e - em)
           d  == IF BCmp(X, Y) >= 0 THEN BSub(X, Y) ELSE BSub(Y, X)
       IN  BCmp(BShl(d, bits), Y) <= 0

(***************************************************************************)
(* Properties of load_generator_data                                       *)
(***************************************************************************)
\* C1: every call of load_generator_data returns four outputs, and each of
\* the four, the CO2 emission factors included, is a mapping keyed by the
\* input labels (by all of them when there are at most six).
C1_FourMappingsKeyedByLabels ==
    \A i \in Made("load_generator_data") :
        /\ history[i].out.exc = "none"
        /\ Len(history[i].out.val) = 4
        /\ \A o \in 1..4 :
               IsMappingOver(history[i].out.val[o], history[i].call.labels, 6)

\* C2: a call of load_generator_data with more than six labels raises no
\* error; the mappings it returns hold the first six labels and no other.
C2_MoreThanSixLabelsTruncated ==
    \A i \in Made("load_generator_data") :
        Len(history[i].call.labels) > 6 =>
            /\ history[i].out.exc = "none"
            /\ \A o \in 1..3 :
                   KeySet(history[i].out.val[o])
                       = LabelSet(SubSeq(history[i].call.labels, 1, 6))

\* The marginal cost of data row p: its fuel cost in euro over its efficiency
marginal_cost_of_row(p) ==
    FDiv(FMul(fuel_costs_dollars[p], IF p <= 2 THEN FZero ELSE dollar2euro_initial),
         efficiencies[p])

capital_cost_of_row(p) == capital_costs_annualized[p]

efficiency_of_row(p) == efficiencies[p]

\* C3: a call of load_generator_data with fewer than six distinct labels
\* returns capital-cost, marginal-cost and efficiency mappings whose keys are
\* exactly the labels, in input order, the i-th label carrying the value of
\* the i-th data row.
C3_FewerLabelsKeepOrderAndRows ==
    \A i \in Made("load_generator_data") :
        (Len(history[i].call.labels) < 6 /\ Distinct(history[i].call.labels)) =>
            /\ history[i].out.exc = "none"
            /\ history[i].out.val[1]
                   = Dict(Aligned(history[i].call.labels, capital_cost_of_row))
            /\ history[i].out.val[2]
                   = Dict(Aligned(history[i].call.labels, marginal_cost_of_row))
            /\ history[i].out.val[3]
                   = Dict(Aligned(history[i].call.labels, efficiency_of_row))

\* C3's case: a call with four distinct labels, in an order of their own, has returned
C3_Witness ==
    \E i \in Made("load_generator_data") :
        /\ history[i].call.labels = <<"coal", "OCGT", "wind", "solar">>
        /\ history[i].out.exc = "none"
        /\ Len(history[i].out.val[2].items) = 4

\* C8: for the six labels wind, solar, OCGT, coal, biomass, nuclear, wind
\* and solar have zero marginal cost and zero CO2 emission factor, OCGT and
\* coal have positive marginal cost and positive CO2 emission factor, and the
\* efficiency of wind, solar and biomass is exactly 1.  The CO2 emission
\* factors come as a list in the order of the data rows, so a technology's
\* factor is the entry at its row.
C8_CanonicalGeneratorValues ==
    \A i \in Made("load_generator_data") :
        history[i].call.labels = SubSeq(techs, 1, 6) =>
            /\ history[i].out.exc = "none"
            /\ FIsZero(DictGet(history[i].out.val[2], "wind"))
            /\ FIsZero(DictGet(history[i].out.val[2], "solar"))
            /\ FIsZero(history[i].out.val[4].items[1])
            /\ FIsZero(history[i].out.val[4].items[2])
            /\ FCmp(DictGet(history[i].out.val[2], "OCGT"), FZero) = 1
            /\ FCmp(DictGet(history[i].out.val[2], "coal"), FZero) = 1
            /\ FCmp(history[i].out.val[4].items[3], FZero) = 1
            /\ FCmp(history[i].out.val[4].items[4], FZero) = 1
            /\ DictGet(history[i].out.val[3], "wind") = FInt(1)
            /\ DictGet(history[i].out.val[3], "solar") = FInt(1)
            /\ DictGet(history[i].out.val[3], "biomass") = FInt(1)

\* C8's case: the call with the six labels has returned
C8_Witness ==
    \E i \in Made("load_generator_data") :
        /\ history[i].call.labels = SubSeq(techs, 1, 6)
        /\ history[i].out.exc = "none"
        /\ Len(history[i].out.val[4].items) = 6

(***************************************************************************)
(* Properties of load_storage_units_data                                   *)
(***************************************************************************)
\* C4: every call of load_storage_units_data returns five outputs, and each
\* of the five, the power ratios included, is a mapping keyed by the input
\* labels: with fewer than three labels all five hold the leading
\* technologies only.
C4_FiveMappingsKeyedByLabels ==
    \A i \in Made("load_storage_units_data") :
        /\ history[i].out.exc = "none"
        /\ Len(history[i].out.val) = 5
        /\ \A o \in 1..5 :
               IsMappingOver(history[i].out.val[o], history[i].call.labels, 3)

\* C7: the charge and discharge efficiency mappings of every call of
\* load_storage_units_data have the same keys and the same value at each
\* key, the square root of the round-trip efficiency of the row at the
\* position of the key (its last position, should the label be repeated).
C7_SymmetricSqrtEfficiencies ==
    \A i \in Made("load_storage_units_data") :
        /\ history[i].out.exc = "none"
        /\ DictKeys(history[i].out.val[2]) = DictKeys(history[i].out.val[3])
        /\ \A p \in 1..Len(history[i].out.val[2].items) :
               /\ history[i].out.val[2].items[p][2] = history[i].out.val[3].items[p][2]
               /\ IsSqrtOf(history[i].out.val[2].items[p][2],
                           round_trip_efficiencies[
                               LastPosition(history[i].call.labels,
                                            history[i].out.val[2].items[p][1], 3)])

\* C7's case: a call naming the three technologies has returned its efficiencies
C7_Witness ==
    \E i \in Made("load_storage_units_data") :
        /\ history[i].call.labels = SubSeq(storage_techs, 1, 3)
        /\ history[i].out.exc = "none"
        /\ Len(history[i].out.val[2].items) = 3
        /\ Len(history[i].out.val[3].items) = 3

(***************************************************************************)
(* Properties of annuity                                                   *)
(***************************************************************************)
\* C5: no call of annuity raises an error, whatever n and r, n = 0 and
\* n < 0 included: each returns a value.
C5_AnnuityNeverRaises ==
    \A i \in Made("annuity") : history[i].out.exc = "none"

\* C6: for n > 0, annuity(n, r) is r / (1 - (1+r)^(-n)) when r > 0 (here:
\* a value within 2^-40 of that real number) and is 1/n when r <= 0.
C6_FormulaOrStraightLine ==
    \A i \in Made("annuity") :
        history[i].call.n > 0 =>
            IF FCmp(history[i].call.r, FZero) = 1
            THEN /\ history[i].out.exc = "none"
                 /\ NearAnnuityFactor(history[i].out.val, history[i].call.n,
                                      history[i].call.r, 40)
            ELSE history[i].out = Return(FDiv(FInt(1), FInt(history[i].call.n)))

\* C10: for a fixed n > 0, annuity(n, r) increases with r: of two calls
\* with the same n, the one with the smaller rate returns a value no larger
\* than the other's, also when the rates lie on the two sides of zero.
C10_MonotoneInRate ==
    \A i \in Made("annuity") : \A j \in Made("annuity") :
        (/\ history[i].call.n > 0
         /\ history[i].call.n = history[j].call.n
         /\ FCmp(history[i].call.r, history[j].call.r) = -1) =>
            /\ history[i].out.exc = "none"
            /\ history[j].out.exc = "none"
            /\ FCmp(history[i].out.val, history[j].out.val) \in {-1, 0}

(***************************************************************************)
(* Properties of the module as a whole                                     *)
(***************************************************************************)
\* C9: a call's result depends on its arguments only: after any calls of
\* the four functions dollar2euro has its initial value, two calls with the
\* same arguments have the same outcome, and load_hydro_cost returns a
\* positive value.
C9_ResultsDependOnArgumentsOnly ==
    /\ dollar2euro = dollar2euro_initial
    /\ \A i \in 1..Len(history) : \A j \in 1..Len(history) :
           history[i].call = history[j].call => history[i].out = history[j].out
    /\ \A i \in Made("load_hydro_cost") :
           /\ history[i].out.exc = "none"
           /\ FCmp(history[i].out.val, FZero) = 1

\* C9's case: load_hydro_cost called, then load_generator_data, then
\* load_hydro_cost again
C9_Witness ==
    /\ Len(history) = 3
    /\ history[1].call.fn = "load_hydro_cost"
    /\ history[2].call.fn = "load_generator_data"
    /\ history[3].call.fn = "load_hydro_cost"

====
